---- MODULE Spec2Model ----
(***************************************************************************)
(* The deduplicating asynchronous search engine of app/services/           *)
(* search_service.py: SearchService.start_search, the background task      *)
(* _execute_search_background and get_search_status, running as coroutines *)
(* of one asyncio event loop over the shared "searches" hash of the cache  *)
(* store and the class-level registry _background_tasks.                   *)
(*                                                                         *)
(* A coroutine runs without interruption between two awaits; every await   *)
(* of a store operation or of the thread executor is a suspension point,   *)
(* so every action below is the code between two suspension points.  A     *)
(* store operation takes effect at some moment between its call and the    *)
(* moment the awaiting coroutine resumes.                                  *)
(***************************************************************************)
EXTENDS Integers, Sequences, FiniteSets, TLC

\* ---------------------------------------------------------------- bounds
MaxTasks == 2       \* background tasks created in one behaviour
MaxClock == 1       \* ticks of the wall clock
MaxFaults == 1      \* operations of the store or the database that raise

\* ------------------------------------------------------------- universes
Queries == {"q1"}
Callers == {"c1", "c2"}

\* hashlib.sha256(query.encode('utf-8')).hexdigest(): distinct queries have
\* distinct digests, and a digest is never the query text itself.
sha256(query) == IF query = "q1" THEN "d1" ELSE "d2"

Digests == {sha256(q) : q \in Queries}

\* "d0" is a well-formed task id that is the digest of no query.
TaskIds == Digests \cup {"d0"}

\* An optional value (None, or a dict key that is not there) is the empty
\* set; a present value v is {v}.
None == {}
Some(v) == {v}
Get(o) == CHOOSE v \in o : TRUE

\* datetime.isoformat() and datetime.fromisoformat()
isoformat(t) == [iso |-> t]
fromisoformat(s) == s.iso

\* json.dumps and json.loads of a dict
dumps(d) == [json |-> d]
loads(s) == s.json

\* A stored string that is no JSON document: json.loads raises
\* JSONDecodeError on it.
Malformed == [text |-> "not json"]
Decodable(s) == "json" \in DOMAIN s
DecodeError == "Expecting value: line 1 column 1 (char 0)"

\* str(e) of the exceptions the engine can see
UpstreamError == "upstream error"
StoreError == "store error"

\* mock_api(query): the upstream computation's result
mock_api(query, t) ==
    [message |-> "API worked.", query |-> query, timestamp |-> isoformat(t)]

VARIABLES
    store,             \* the "searches" hash: digest -> None | Some(serialized Job)
    background_tasks,  \* SearchService._background_tasks: digest -> task (0: no entry)
    tasks,             \* the asyncio tasks created so far, by task number
    callers,           \* the start_search coroutine of each caller
    returned,          \* the latest return of a handler: the call and its response
    poll,              \* the get_search_status coroutine
    now,               \* datetime.now()
    started,           \* the digests start_search has been called for
    faults,            \* store and database operations that have raised so far
    db                 \* durable storage: the committed rows

VARIABLES
    sessions,          \* the database sessions that run store_search_request
    redis,             \* RedisRequestCache._redis and the server behind it
    kv,                \* the keys of the Redis database, with their values
    locks,             \* RedisRequestCache._locks
    holders,           \* the asyncio.Lock objects that are locked, with their holders
    gets,              \* the get_or_set coroutine of each caller
    invoked,           \* per key, the values that the getters invoked so far produce
    search_request,    \* the body of a search request that pydantic validates
    users              \* the UserService coroutine of each caller

\* the state of RedisRequestCache
cachevars == <<redis, kv, locks, holders, gets, invoked>>

\* the state of the components that the search service does not touch
others == <<sessions, cachevars, search_request, users>>

\* the state of the search service and of the database
service == <<store, background_tasks, tasks, callers, returned, poll, now, started, faults, db>>

vars == <<store, background_tasks, tasks, callers, returned, poll, now, started, faults,
          db, others>>

\* ---------------------------------------------------------- Job records
\* a pending Job that carries the time of its creation as completed_at
pending_request_Stamped(query, current_time) ==
    [query |-> query, result |-> None, status |-> "pending",
     timestamp |-> isoformat(current_time),
     completed_at |-> Some(isoformat(current_time)), error |-> None]

pending_request(query, current_time) ==
    [query |-> query, result |-> None, status |-> "pending",
     timestamp |-> isoformat(current_time),
     completed_at |-> None, error |-> None]

completed_request(query, result, start_time, t) ==
    [query |-> query, result |-> Some(result), status |-> "completed",
     timestamp |-> isoformat(start_time),
     completed_at |-> Some(isoformat(t)), error |-> None]

error_request(query, start_time, t, e) ==
    [query |-> query, result |-> None, status |-> "failed",
     timestamp |-> isoformat(start_time),
     completed_at |-> Some(isoformat(t)), error |-> Some(e)]

\* -------------------------------------------------------- the cache store
\* An entry whose time to live has elapsed: the store still holds it until
\* it is evicted or overwritten.
Expired(value) == [expired |-> value]
IsExpired(entry) == "expired" \in DOMAIN entry

\* request_cache.hget("searches", field): the value stored under field; an
\* expired entry reads as absent
hget(s, field) ==
    IF field \in DOMAIN s /\ s[field] # None /\ ~IsExpired(Get(s[field]))
    THEN s[field]
    ELSE None

\* request_cache.hset("searches", field, value)
hset(s, field, value) == [s EXCEPT ![field] = Some(value)]

\* a store operation may raise instead of taking effect
CanFault == faults < MaxFaults

\* ------------------------------------------------------ start_search returns
Response(task_id, status, result, from_cache, message, error) ==
    [task_id |-> task_id, status |-> status, result |-> result,
     from_cache |-> from_cache, message |-> message, error |-> error]

CacheHitResponse(query_hash, cached_data) ==
    Response(query_hash, "completed", cached_data.result, Some(TRUE), None, None)

InProgressResponse(query_hash) ==
    Response(query_hash, "pending", None, Some(FALSE),
             Some("Search is already in progress"), None)

StartedResponse(query_hash) ==
    Response(query_hash, "pending", None, Some(FALSE),
             Some("Search started successfully"), None)

FailedResponse(query_hash, e) ==
    Response(query_hash, "failed", None, None, Some(e),
             Some("Failed to start search"))

\* The frame of a start_search coroutine.  busy, fresh and cold are no
\* locals of the code: they record the background tasks of the query that
\* were unfinished, whether the stored Job was completed, and whether the
\* stored Job had expired, when the call arrived.
IdleCaller ==
    [pc |-> "idle", query |-> "q1", force_refresh |-> FALSE,
     cached_value |-> None, task |-> 0, current_time |-> 0, busy |-> {},
     fresh |-> FALSE, cold |-> FALSE]

\* start_search returns: the coroutine's frame is gone, the response goes
\* to the caller.  (flip alternates, so that two returns in a row with the
\* same response are two different states.)
Return(cr, response) ==
    Some([op |-> "start_search", response |-> response,
          flip |-> IF returned = None THEN 0 ELSE 1 - Get(returned).flip])

\* get_search_status returns.
StatusReturn(response) ==
    Some([op |-> "get_search_status", response |-> response,
          flip |-> IF returned = None THEN 0 ELSE 1 - Get(returned).flip])

IdlePoll == [pc |-> "idle", task_id |-> "d0"]

\* task.done()
done(t) == tasks[t].pc = "done"

\* the background tasks of a digest that have not run to their end
Unfinished(query_hash) ==
    {t \in 1..Len(tasks) :
        tasks[t].query_hash = query_hash /\ tasks[t].pc # "done"}

\* ------------------------------------------------------------------- Init
\* The callers of DatabaseService.store_search_request, each with a
\* database session of its own.
DbSessions == {"s1", "s2"}

\* the frame of a store_search_request call: no call yet
IdleSession ==
    [pc |-> "idle", query_hash |-> "d1", task_id |-> 1, query |-> "q1",
     result |-> "r1", ret |-> None]

\* --------------------------------------------------- RedisRequestCache
CacheCallers == {"g1", "g2"}
Keys == {"k1", "k2"}

\* The Python values that the getters passed to get_or_set produce
\* (user_service.py: lambda: None, lambda: [], a dict of request data).
PyValues == {[py |-> "None"], [py |-> "[]"]}

\* json.dumps and json.loads on these values
json_dumps(v) ==
    IF v.py \in {"list", "dict"}
    THEN [text |-> v.py, doc |-> v]
    ELSE [text |-> IF v.py = "None" THEN "null" ELSE v.py]
json_loads(t) ==
    IF "doc" \in DOMAIN t
    THEN t.doc
    ELSE [py |-> IF t.text = "null" THEN "None" ELSE t.text]

\* the truth value Python gives to what Redis.get returned (line 54)
Truthy(cached_value) ==
    cached_value # None /\ Get(cached_value).text # ""

\* the frame of a coroutine that calls the cache: no call yet.  op names
\* the operation or handler that the caller is in, force_refresh is the
\* argument of the root endpoint.  seen is history kept for invalidate: the
\* number of getters that had been started for its key when it was called.
IdleGet ==
    [pc |-> "idle", key |-> "k1", getter |-> [py |-> "None"], lock |-> None,
     new_value |-> None, ret |-> None, op |-> "get_or_set",
     force_refresh |-> FALSE, seen |-> 0]

\* The cache as constructed (lines 14-33), with the connection attribute
\* given: "up" is a client whose server answers, "down" a client whose
\* server is unreachable, "none" is self._redis = None.
InitCache(r) ==
    /\ redis = r
    /\ kv = [k \in Keys |-> None]
    /\ locks = [k \in Keys |-> None]
    /\ holders = {}
    /\ gets = [c \in CacheCallers |-> IdleGet]
    /\ invoked = [k \in Keys |-> <<>>]

InitService ==
    /\ store = [d \in Digests |-> None]
    /\ background_tasks = [d \in Digests |-> 0]
    /\ tasks = <<>>
    /\ callers = [c \in Callers |-> IdleCaller]
    /\ returned = None
    /\ poll = IdlePoll
    /\ now = 0
    /\ started = {}
    /\ faults = 0
    /\ db = [owners |-> {}, search_requests |-> {}]
    /\ sessions = [s \in DbSessions |-> IdleSession]

\* no request body has been received
NoSearchRequest == [pc |-> "idle", query |-> <<>>, value |-> None]

\* no UserService call has been made
IdleUser ==
    [pc |-> "idle", op |-> "none", query |-> "q1", request_id |-> 0,
     current_time |-> 0, existing_requests |-> <<>>, i |-> 0,
     request_data |-> None, recent_requests |-> <<>>, ret |-> None,
     existed |-> FALSE, calls |-> 0]

NoUsers == [c \in CacheCallers |-> IdleUser]

Init ==
    /\ InitService
    /\ InitCache("up")
    /\ search_request = NoSearchRequest
    /\ users = NoUsers

\* ------------------------------------------------------------ start_search
\* LaunchOrJoin without the running-task check of lines 56-64.
LaunchOrJoin_NoRunningCheck(c, cr) ==
    LET query_hash == sha256(cr.query)
        task == Len(tasks) + 1 IN
    /\ tasks' = Append(tasks,
           [query |-> cr.query, query_hash |-> query_hash,
            start_time |-> now, pc |-> "created",
            result |-> None, error |-> None, completed_at |-> 0])
    /\ background_tasks' = [background_tasks EXCEPT ![query_hash] = task]
    /\ callers' = [callers EXCEPT ![c] =
           [cr EXCEPT !.pc = "hset", !.cached_value = None,
                      !.task = task, !.current_time = now]]
    /\ UNCHANGED returned

\* Lines 55-84, run without suspension: the running-task check, then
\* create_task, the registration of the task and the call of hset for the
\* pending Job, at whose await the coroutine suspends.
LaunchOrJoin(c, cr) ==
    LET query_hash == sha256(cr.query) IN
    IF /\ background_tasks[query_hash] # 0
       /\ ~done(background_tasks[query_hash])
    THEN /\ callers' = [callers EXCEPT ![c] = IdleCaller]
         /\ returned' = Return(cr, InProgressResponse(query_hash))
         /\ UNCHANGED <<tasks, background_tasks>>
    ELSE LET task == Len(tasks) + 1 IN
         /\ tasks' = Append(tasks,
                [query |-> cr.query, query_hash |-> query_hash,
                 start_time |-> now, pc |-> "created",
                 result |-> None, error |-> None, completed_at |-> 0])
         /\ background_tasks' = [background_tasks EXCEPT ![query_hash] = task]
         /\ callers' = [callers EXCEPT ![c] =
                [cr EXCEPT !.pc = "hset", !.cached_value = None,
                           !.task = task, !.current_time = now]]
         /\ UNCHANGED returned

\* the Job stored for the digest is completed
Completed(query_hash) ==
    /\ hget(store, query_hash) # None
    /\ Decodable(Get(hget(store, query_hash)))
    /\ loads(Get(hget(store, query_hash))).status = "completed"

\* the entry stored under query_hash has outlived its time to live
Cold(query_hash) ==
    store[query_hash] # None /\ IsExpired(Get(store[query_hash]))

\* the callers inside start_search that have not yet reached line 56
InStartSearch == {c \in Callers : callers[c].pc \in {"hget", "hget_done"}}

\* start_search without the force_refresh test of line 42: every call reads
\* the cache first.
StartSearchCall_IgnoresForce(c, query, force_refresh) ==
    /\ callers[c].pc = "idle"
    /\ Len(tasks) + Cardinality(InStartSearch) < MaxTasks
    /\ started' = started \cup {sha256(query)}
    /\ callers' = [callers EXCEPT ![c] =
            [IdleCaller EXCEPT !.pc = "hget", !.query = query,
                               !.force_refresh = force_refresh,
                               !.busy = Unfinished(sha256(query)),
                               !.fresh = Completed(sha256(query)),
                               !.cold = Cold(sha256(query))]]
    /\ UNCHANGED <<db, tasks, background_tasks, returned, store, poll, now, faults, others>>

\* A caller enters start_search(query, force_refresh).  With force_refresh
\* the cache read is skipped and lines 55-84 follow at once; without it the
\* coroutine suspends in hget.
StartSearchCall(c, query, force_refresh) ==
    /\ callers[c].pc = "idle"
    /\ Len(tasks) + Cardinality(InStartSearch) < MaxTasks
    /\ started' = started \cup {sha256(query)}
    /\ LET cr == [IdleCaller EXCEPT !.query = query,
                                    !.force_refresh = force_refresh,
                                    !.busy = Unfinished(sha256(query)),
                                    !.fresh = Completed(sha256(query)),
                                    !.cold = Cold(sha256(query))] IN
       IF force_refresh
       THEN LaunchOrJoin(c, cr)
       ELSE /\ callers' = [callers EXCEPT ![c] = [cr EXCEPT !.pc = "hget"]]
            /\ UNCHANGED <<tasks, background_tasks, returned>>
    /\ UNCHANGED <<db, store, poll, now, faults, others>>

\* Line 43: the store answers the hget ...
StartSearchHget(c) ==
    /\ callers[c].pc = "hget"
    /\ callers' = [callers EXCEPT ![c] =
            [@ EXCEPT !.pc = "hget_done",
                      !.cached_value = hget(store, sha256(callers[c].query))]]
    /\ UNCHANGED <<db, returned, store, background_tasks, tasks, poll, now, started, faults, others>>

\* ... or raises, which the except clause of lines 93-100 turns into a
\* failed response.
StartSearchHgetRaises(c) ==
    /\ callers[c].pc = "hget"
    /\ CanFault
    /\ faults' = faults + 1
    /\ callers' = [callers EXCEPT ![c] = IdleCaller]
    /\ returned' = Return(callers[c],
                          FailedResponse(sha256(callers[c].query), StoreError))
    /\ UNCHANGED <<db, store, background_tasks, tasks, poll, now, started, others>>

\* start_search without the cache test of lines 44-53: the value read is
\* never served.
StartSearchDecide_NoCacheCheck(c) ==
    /\ callers[c].pc = "hget_done"
    /\ LaunchOrJoin(c, callers[c])
    /\ UNCHANGED <<db, store, poll, now, started, faults, others>>

\* Lines 44-84: the coroutine resumes with the value read.
StartSearchDecide(c) ==
    LET cr == callers[c]
        query_hash == sha256(cr.query) IN
    /\ cr.pc = "hget_done"
    /\ IF cr.cached_value # None /\ ~Decodable(Get(cr.cached_value))
       THEN /\ callers' = [callers EXCEPT ![c] = IdleCaller]
            /\ returned' = Return(cr, FailedResponse(query_hash, DecodeError))
            /\ UNCHANGED <<tasks, background_tasks>>
       ELSE IF /\ cr.cached_value # None
               /\ loads(Get(cr.cached_value)).status = "completed"
       THEN /\ callers' = [callers EXCEPT ![c] = IdleCaller]
            /\ returned' = Return(cr, CacheHitResponse(query_hash,
                                          loads(Get(cr.cached_value))))
            /\ UNCHANGED <<tasks, background_tasks>>
       ELSE LaunchOrJoin(c, cr)
    /\ UNCHANGED <<db, store, poll, now, started, faults, others>>

\* start_search that writes the pending Job under a key other than the
\* digest it returns.
StartSearchHset_OtherKey(c) ==
    LET cr == callers[c]
        query_hash == sha256(cr.query) IN
    /\ cr.pc = "hset"
    /\ store' = hset(store, "d0",
                     dumps(pending_request(cr.query, cr.current_time)))
    /\ callers' = [callers EXCEPT ![c] = IdleCaller]
    /\ returned' = Return(cr, StartedResponse(query_hash))
    /\ UNCHANGED <<db, background_tasks, tasks, poll, now, started, faults, others>>

\* start_search that returns only once the task it launched has ended.
StartSearchHset_Waits(c) ==
    LET cr == callers[c]
        query_hash == sha256(cr.query) IN
    /\ cr.pc = "hset"
    /\ done(cr.task)
    /\ store' = hset(store, query_hash,
                     dumps(pending_request(cr.query, cr.current_time)))
    /\ callers' = [callers EXCEPT ![c] = IdleCaller]
    /\ returned' = Return(cr, StartedResponse(query_hash))
    /\ UNCHANGED <<db, background_tasks, tasks, poll, now, started, faults, others>>

\* Line 84: the pending Job is written and start_search returns (86-91).
StartSearchHset(c) ==
    LET cr == callers[c]
        query_hash == sha256(cr.query) IN
    /\ cr.pc = "hset"
    /\ store' = hset(store, query_hash,
                     dumps(pending_request(cr.query, cr.current_time)))
    /\ callers' = [callers EXCEPT ![c] = IdleCaller]
    /\ returned' = Return(cr, StartedResponse(query_hash))
    /\ UNCHANGED <<db, background_tasks, tasks, poll, now, started, faults, others>>

\* Line 84 raises: lines 93-100.
StartSearchHsetRaises(c) ==
    LET cr == callers[c] IN
    /\ cr.pc = "hset"
    /\ CanFault
    /\ faults' = faults + 1
    /\ callers' = [callers EXCEPT ![c] = IdleCaller]
    /\ returned' = Return(cr, FailedResponse(sha256(cr.query), StoreError))
    /\ UNCHANGED <<db, store, background_tasks, tasks, poll, now, started, others>>

\* ---------------------------------------------- _execute_search_background
\* A task that has run to its end: its frame (the locals) is gone; what is
\* left is the task object and the way it ended.
Finished(tk) ==
    [tk EXCEPT !.pc = "done", !.start_time = 0, !.result = None,
               !.completed_at = 0]

\* a finally clause that leaves the registry as it is
Cleanup_Skip(query_hash) == background_tasks' = background_tasks

\* The finally clause, lines 145-148.
Cleanup(query_hash) ==
    background_tasks' =
        IF background_tasks[query_hash] # 0
        THEN [background_tasks EXCEPT ![query_hash] = 0]
        ELSE background_tasks

\* Lines 105-110: the task gets the event loop and hands mock_api to the
\* thread executor.
ExecuteStart(t) ==
    /\ tasks[t].pc = "created"
    /\ tasks' = [tasks EXCEPT ![t].pc = "upstream"]
    /\ UNCHANGED <<db, store, background_tasks, callers, returned, poll, now, started, faults, others>>

\* a task that takes the start time for the time of completion
UpstreamReturns_StartClock(t) ==
    /\ tasks[t].pc = "upstream"
    /\ tasks' = [tasks EXCEPT ![t] =
            [@ EXCEPT !.pc = "hset_completed",
                      !.result = Some(mock_api(tasks[t].query, now)),
                      !.completed_at = 0]]
    /\ UNCHANGED <<db, store, background_tasks, callers, returned, poll, now, started, faults, others>>

\* Lines 110-122: the upstream computation returns; the completed Job is
\* built and hset is called.
UpstreamReturns(t) ==
    /\ tasks[t].pc = "upstream"
    /\ tasks' = [tasks EXCEPT ![t] =
            [@ EXCEPT !.pc = "hset_completed",
                      !.result = Some(mock_api(tasks[t].query, now)),
                      !.completed_at = now]]
    /\ UNCHANGED <<db, store, background_tasks, callers, returned, poll, now, started, faults, others>>

\* Lines 110, 129-143: the upstream computation raises; the failed Job is
\* built and hset is called.
UpstreamRaises(t) ==
    /\ tasks[t].pc = "upstream"
    /\ tasks' = [tasks EXCEPT ![t] =
            [@ EXCEPT !.pc = "hset_error",
                      !.error = Some(UpstreamError),
                      !.completed_at = now]]
    /\ UNCHANGED <<db, store, background_tasks, callers, returned, poll, now, started, faults, others>>

\* Line 122 takes effect; the task goes on to _sync_to_database (127).
HsetCompleted(t) ==
    LET tk == tasks[t] IN
    /\ tk.pc = "hset_completed"
    /\ store' = hset(store, tk.query_hash,
                     dumps(completed_request(tk.query, Get(tk.result),
                                             tk.start_time, tk.completed_at)))
    /\ tasks' = [tasks EXCEPT ![t].pc = "sync"]
    /\ UNCHANGED <<db, background_tasks, callers, returned, poll, now, started, faults, others>>

\* Line 122 raises: the except clause builds the failed Job (129-143).
HsetCompletedRaises(t) ==
    /\ tasks[t].pc = "hset_completed"
    /\ CanFault
    /\ faults' = faults + 1
    /\ tasks' = [tasks EXCEPT ![t] =
            [@ EXCEPT !.pc = "hset_error",
                      !.error = Some(StoreError),
                      !.completed_at = now]]
    /\ UNCHANGED <<db, store, background_tasks, callers, returned, poll, now, started, others>>

\* Durable storage (core/models/database.py): the owners are the tasks of
\* the table tasks, each created together with its user; search_requests is
\* the table of that name, whose primary key is (id, task_id).
SearchRequest(query_hash, task_id, query, result, status) ==
    [id |-> query_hash, task_id |-> task_id, query |-> query,
     result |-> dumps(result), status |-> status]

\* uuid4 of the Task that create_user_and_task adds: an owner not yet in
\* the table.
NewOwner(d) == Cardinality(d.owners) + 1

\* DatabaseService.create_user_and_task, committed (lines 35-49).
create_user_and_task(d) == [d EXCEPT !.owners = @ \cup {NewOwner(d)}]

\* the row of the primary key (query_hash, task_id) exists (lines 63-66)
existing_request(d, query_hash, task_id) ==
    \E r \in d.search_requests : r.id = query_hash /\ r.task_id = task_id

\* DatabaseService.store_search_request, committed (lines 63-91).
store_search_request(d, query_hash, task_id, query, result, status) ==
    IF existing_request(d, query_hash, task_id)
    THEN d
    ELSE [d EXCEPT !.search_requests =
              @ \cup {SearchRequest(query_hash, task_id, query, result, status)}]

\* _perform_db_sync when the database works (lines 174-201).
perform_db_sync(d, query_hash, query, result) ==
    store_search_request(create_user_and_task(d), query_hash, NewOwner(d),
                         query, result, "completed")

\* Lines 127, 145-148: _sync_to_database returns and the finally clause
\* runs.
SyncToDatabase(t) ==
    /\ tasks[t].pc = "sync"
    /\ db' = perform_db_sync(db, tasks[t].query_hash, tasks[t].query,
                             Get(tasks[t].result))
    /\ tasks' = [tasks EXCEPT ![t] = Finished(@)]
    /\ Cleanup(tasks[t].query_hash)
    /\ UNCHANGED <<store, callers, returned, poll, now, started, faults, others>>

\* _sync_to_database whose failure is not swallowed: the except clause of
\* line 129 takes over.
SyncToDatabaseRaises_Propagates(t) ==
    /\ tasks[t].pc = "sync"
    /\ tasks' = [tasks EXCEPT ![t] =
            [@ EXCEPT !.pc = "hset_error",
                      !.error = Some("database error"),
                      !.completed_at = now]]
    /\ UNCHANGED <<db, store, background_tasks, callers, returned, poll, now, started, faults, others>>

\* Creating the user and the task raises (database_service.py 51-54), or
\* the session or the executor fails: _perform_db_sync (197-201) or
\* _sync_to_database (165-166) logs it; nothing is stored.
SyncToDatabaseRaises(t) ==
    /\ tasks[t].pc = "sync"
    /\ CanFault
    /\ faults' = faults + 1
    /\ tasks' = [tasks EXCEPT ![t] = Finished(@)]
    /\ Cleanup(tasks[t].query_hash)
    /\ UNCHANGED <<db, store, callers, returned, poll, now, started, others>>

\* Storing the search request fails after the user and the task were
\* committed: store_search_request rolls back and returns None (93-97).
SyncToDatabaseStoreFails(t) ==
    /\ tasks[t].pc = "sync"
    /\ CanFault
    /\ faults' = faults + 1
    /\ db' = create_user_and_task(db)
    /\ tasks' = [tasks EXCEPT ![t] = Finished(@)]
    /\ Cleanup(tasks[t].query_hash)
    /\ UNCHANGED <<store, callers, returned, poll, now, started, others>>

\* Line 143 takes effect, then the finally clause.
HsetError(t) ==
    LET tk == tasks[t] IN
    /\ tk.pc = "hset_error"
    /\ store' = hset(store, tk.query_hash,
                     dumps(error_request(tk.query, tk.start_time,
                                         tk.completed_at, Get(tk.error))))
    /\ tasks' = [tasks EXCEPT ![t] = Finished(@)]
    /\ Cleanup(tk.query_hash)
    /\ UNCHANGED <<db, callers, returned, poll, now, started, faults, others>>

\* Line 143 raises: the exception leaves the task through the finally clause.
HsetErrorRaises(t) ==
    /\ tasks[t].pc = "hset_error"
    /\ CanFault
    /\ faults' = faults + 1
    /\ tasks' = [tasks EXCEPT ![t] = Finished(@)]
    /\ Cleanup(tasks[t].query_hash)
    /\ UNCHANGED <<db, store, callers, returned, poll, now, started, others>>

\* --------------------------------------------------------- get_search_status
StatusResponse(task_id, status, query, timestamp, result, completed_at, error, message) ==
    [task_id |-> task_id, status |-> status, query |-> query,
     timestamp |-> timestamp, result |-> result,
     completed_at |-> completed_at, error |-> error, message |-> message]

\* Lines 239-245
StatusErrorResponse(task_id, e) ==
    StatusResponse(task_id, "error", None, None, None, None, None, Some(e))

\* get_search_status without the test of line 213: a missing Job is
\* reported as pending.
get_search_status_NoNotFound(cached_value, task_id) ==
    IF cached_value = None
    THEN StatusResponse(task_id, "pending", None, None, None, None, None,
                        None)
    ELSE LET result == loads(Get(cached_value)) IN
         StatusResponse(task_id, result.status, Some(result.query),
             Some(result.timestamp),
             IF result.status = "completed" THEN result.result ELSE None,
             IF result.status \in {"completed", "failed"}
                 THEN result.completed_at ELSE None,
             IF result.status = "failed" THEN result.error ELSE None,
             None)

\* Lines 213-237: the response built from the value hget returned.
get_search_status(cached_value, task_id) ==
    IF cached_value = None
    THEN StatusResponse(task_id, "not_found", None, None, None, None, None,
                        Some("Search task not found"))
    ELSE IF ~Decodable(Get(cached_value))
    THEN StatusErrorResponse(task_id, DecodeError)
    ELSE LET result == loads(Get(cached_value)) IN
         StatusResponse(task_id, result.status, Some(result.query),
             Some(result.timestamp),
             IF result.status = "completed" THEN result.result ELSE None,
             IF result.status \in {"completed", "failed"}
                 THEN result.completed_at ELSE None,
             IF result.status = "failed" THEN result.error ELSE None,
             None)

\* Lines 208-212: get_search_status(task_id) is called and suspends in hget.
GetSearchStatusCall(task_id) ==
    /\ poll.pc = "idle"
    /\ poll' = [pc |-> "hget", task_id |-> task_id]
    /\ UNCHANGED <<db, store, background_tasks, tasks, callers, returned, now, started, faults, others>>

\* get_search_status that answers only once no background task of the
\* digest is running.
GetSearchStatusHget_Waits ==
    /\ poll.pc = "hget"
    /\ Unfinished(poll.task_id) = {}
    /\ poll' = IdlePoll
    /\ returned' = StatusReturn(get_search_status(hget(store, poll.task_id),
                                                  poll.task_id))
    /\ UNCHANGED <<db, store, background_tasks, tasks, callers, now, started, faults, others>>

\* Lines 212-237: the store answers and the response is returned.
GetSearchStatusHget ==
    /\ poll.pc = "hget"
    /\ poll' = IdlePoll
    /\ returned' = StatusReturn(get_search_status(hget(store, poll.task_id),
                                                  poll.task_id))
    /\ UNCHANGED <<db, store, background_tasks, tasks, callers, now, started, faults, others>>

\* Lines 212, 239-245: hget raises.
GetSearchStatusHgetRaises ==
    /\ poll.pc = "hget"
    /\ CanFault
    /\ faults' = faults + 1
    /\ poll' = IdlePoll
    /\ returned' = StatusReturn(StatusErrorResponse(poll.task_id, StoreError))
    /\ UNCHANGED <<db, store, background_tasks, tasks, callers, now, started, others>>

\* ------------------------------------------------------------------ clock
Tick ==
    /\ now < MaxClock
    /\ now' = now + 1
    /\ UNCHANGED <<db, store, background_tasks, tasks, callers, returned, poll, started, faults, others>>

\* ------------------------------------------------------------------- Next
StartSearchStep(c) ==
    \/ \E q \in Queries, f \in BOOLEAN : StartSearchCall(c, q, f)
    \/ StartSearchHget(c)
    \/ StartSearchHgetRaises(c)
    \/ StartSearchDecide(c)
    \/ StartSearchHset(c)
    \/ StartSearchHsetRaises(c)

ExecuteStep(t) ==
    \/ ExecuteStart(t)
    \/ UpstreamReturns(t)
    \/ UpstreamRaises(t)
    \/ HsetCompleted(t)
    \/ HsetCompletedRaises(t)
    \/ SyncToDatabase(t)
    \/ SyncToDatabaseRaises(t)
    \/ SyncToDatabaseStoreFails(t)
    \/ HsetError(t)
    \/ HsetErrorRaises(t)

StatusStep ==
    \/ \E id \in TaskIds : GetSearchStatusCall(id)
    \/ GetSearchStatusHget
    \/ GetSearchStatusHgetRaises

Next ==
    \/ \E c \in Callers : StartSearchStep(c)
    \/ \E t \in 1..Len(tasks) : ExecuteStep(t)
    \/ StatusStep

Spec == Init /\ [][Next]_vars

\* The engine when every caller leaves force_refresh at its default (False).
PlainStartSearchStep(c) ==
    \/ \E q \in Queries : StartSearchCall(c, q, FALSE)
    \/ StartSearchHget(c)
    \/ StartSearchHgetRaises(c)
    \/ StartSearchDecide(c)
    \/ StartSearchHset(c)
    \/ StartSearchHsetRaises(c)

NextPlain ==
    \/ \E c \in Callers : PlainStartSearchStep(c)
    \/ \E t \in 1..Len(tasks) : ExecuteStep(t)
    \/ StatusStep

SpecPlain == Init /\ [][NextPlain]_vars

\* The same engine with a wall clock that advances.
NextTimed == Next \/ Tick

SpecTimed == Init /\ [][NextTimed]_vars

\* The engine and the wall clock, every caller leaving force_refresh at its
\* default and nobody asking for the status.
ClockStartSearchStep(c) ==
    \/ \E q \in Queries : StartSearchCall(c, q, FALSE)
    \/ StartSearchHget(c)
    \/ StartSearchDecide(c)
    \/ StartSearchHset(c)

\* the steps of a background task that stamp a Job or store one
ClockExecuteStep(t) ==
    \/ ExecuteStart(t)
    \/ UpstreamReturns(t)
    \/ UpstreamRaises(t)
    \/ HsetCompleted(t)
    \/ HsetCompletedRaises(t)
    \/ SyncToDatabase(t)
    \/ HsetError(t)

NextClock ==
    \/ \E c \in Callers : ClockStartSearchStep(c)
    \/ \E t \in 1..Len(tasks) : ClockExecuteStep(t)
    \/ Tick

SpecClock == Init /\ [][NextClock]_vars

\* ------------------------------------------------------- the shared store
\* The time to live of the entry stored under query_hash elapses.
Expire(query_hash) ==
    /\ hget(store, query_hash) # None
    /\ store' = [store EXCEPT ![query_hash] = Some(Expired(Get(@)))]
    /\ UNCHANGED <<db, background_tasks, tasks, callers, returned, poll, now, started, faults, others>>

\* Another client of the "searches" hash stores under task_id a string that
\* is no JSON document.
Corrupt(task_id) ==
    /\ store[task_id] # Some(Malformed)
    /\ store' = [store EXCEPT ![task_id] = Some(Malformed)]
    /\ UNCHANGED <<db, background_tasks, tasks, callers, returned, poll, now, started, faults, others>>

\* The engine, every caller leaving force_refresh at its default, on a
\* store whose entries expire.
NextExpiry ==
    \/ \E c \in Callers : PlainStartSearchStep(c)
    \/ \E t \in 1..Len(tasks) : ExecuteStep(t)
    \/ \E d \in Digests : Expire(d)

SpecExpiry == Init /\ [][NextExpiry]_vars

\* The same engine on a store that other clients write.
NextForeign ==
    \/ NextPlain
    \/ \E d \in Digests : Corrupt(d)

SpecForeign == Init /\ [][NextForeign]_vars

\* ------------------------------------------------- store_search_request
\* DatabaseService.store_search_request called directly, by concurrent
\* sessions, for primary keys of the callers' choosing.
MaxOwners == 2      \* owning tasks that a store_search_request call may name
Results == {"r1", "r2"}

\* Lines 57-60: the call.
StoreSearchRequestCall(s, query_hash, task_id, query, result) ==
    /\ sessions[s].pc \in {"idle", "returned"}
    /\ sessions' = [sessions EXCEPT ![s] =
            [pc |-> "query", query_hash |-> query_hash, task_id |-> task_id,
             query |-> query, result |-> result, ret |-> None]]
    /\ UNCHANGED <<db, store, background_tasks, tasks, callers, returned, poll, now, started, faults, cachevars, search_request, users>>

\* Lines 63-70: the lookup; a row found is returned.
StoreSearchRequestQuery(s) ==
    LET f == sessions[s] IN
    /\ f.pc = "query"
    /\ sessions' = [sessions EXCEPT ![s] =
            IF existing_request(db, f.query_hash, f.task_id)
            THEN [f EXCEPT !.pc = "returned",
                           !.ret = {r \in db.search_requests :
                                       /\ r.id = f.query_hash
                                       /\ r.task_id = f.task_id}]
            ELSE [f EXCEPT !.pc = "commit"]]
    /\ UNCHANGED <<db, store, background_tasks, tasks, callers, returned, poll, now, started, faults, cachevars, search_request, users>>

\* a commit on a table without the primary key constraint: the row is
\* inserted whatever the table holds
StoreSearchRequestCommit_NoPrimaryKey(s) ==
    LET f == sessions[s]
        request == SearchRequest(f.query_hash, f.task_id, f.query, f.result,
                                 "completed") IN
    /\ f.pc = "commit"
    /\ db' = [db EXCEPT !.search_requests = @ \cup {request}]
    /\ sessions' = [sessions EXCEPT ![s] =
            [f EXCEPT !.pc = "returned", !.ret = Some(request)]]
    /\ UNCHANGED <<store, background_tasks, tasks, callers, returned, poll, now, started, faults, cachevars, search_request, users>>

\* Lines 73-97: the row is added and committed.  The primary key
\* (id, task_id) of the table (database.py 48-51) makes the commit raise
\* when another session has stored the pair since the lookup: the except
\* clause rolls back and returns None.
StoreSearchRequestCommit(s) ==
    LET f == sessions[s]
        request == SearchRequest(f.query_hash, f.task_id, f.query, f.result,
                                 "completed") IN
    /\ f.pc = "commit"
    /\ IF existing_request(db, f.query_hash, f.task_id)
       THEN /\ db' = db
            /\ sessions' = [sessions EXCEPT ![s] =
                    [f EXCEPT !.pc = "returned", !.ret = None]]
       ELSE /\ db' = store_search_request(db, f.query_hash, f.task_id,
                                          f.query, f.result, "completed")
            /\ sessions' = [sessions EXCEPT ![s] =
                    [f EXCEPT !.pc = "returned", !.ret = Some(request)]]
    /\ UNCHANGED <<store, background_tasks, tasks, callers, returned, poll, now, started, faults, cachevars, search_request, users>>

\* Lines 86, 93-97: the commit fails for a reason of the database.
StoreSearchRequestCommitFails(s) ==
    /\ sessions[s].pc = "commit"
    /\ CanFault
    /\ faults' = faults + 1
    /\ sessions' = [sessions EXCEPT ![s] =
            [@ EXCEPT !.pc = "returned", !.ret = None]]
    /\ UNCHANGED <<db, store, background_tasks, tasks, callers, returned, poll, now, started, cachevars, search_request, users>>

StoreSearchRequestStep(s) ==
    \/ \E q \in Queries, o \in 1..MaxOwners, r \in Results :
           StoreSearchRequestCall(s, sha256(q), o, q, r)
    \/ StoreSearchRequestQuery(s)
    \/ StoreSearchRequestCommit(s)
    \/ StoreSearchRequestCommitFails(s)

NextDb == \E s \in DbSessions : StoreSearchRequestStep(s)

SpecDb == Init /\ [][NextDb]_vars

\* ------------------------------------------------------------ get_or_set
MaxInvocations == 2     \* getter invocations per key in one behaviour

\* an asyncio.Lock object is locked
Locked(lock) == \E h \in holders : h.lock = lock

\* what get_or_set returns or raises
Returned(v) == Some([kind |-> "value", value |-> v])
Raised(e) == Some([kind |-> "raise", value |-> [py |-> e]])

\* invoked keeps, for the keys it is given at the start, the getters that
\* were started: how many there are so far, and one more.
Invocations(key) ==
    IF key \in DOMAIN invoked THEN Len(invoked[key]) ELSE 0

Invoke(key, getter) ==
    IF key \in DOMAIN invoked
    THEN [invoked EXCEPT ![key] = Append(@, getter)]
    ELSE invoked

\* leaving the async with block of line 51
Release(c) ==
    holders' = holders \ {[lock |-> Get(gets[c].lock), holder |-> c]}

\* get_or_set that makes a Lock of its own on every call
GetOrSetCall_NewLock(c, key, getter) ==
    LET lock == [key |-> key, by |-> c] IN
    /\ gets[c].pc \in {"idle", "returned"}
    /\ redis # "none"
    /\ locks' = [locks EXCEPT ![key] = Some(lock)]
    /\ IF Locked(lock)
       THEN /\ gets' = [gets EXCEPT ![c] =
                    [IdleGet EXCEPT !.pc = "acquire", !.key = key,
                                    !.getter = getter, !.lock = Some(lock)]]
            /\ UNCHANGED holders
       ELSE /\ gets' = [gets EXCEPT ![c] =
                    [IdleGet EXCEPT !.pc = "get", !.key = key,
                                    !.getter = getter, !.lock = Some(lock)]]
            /\ holders' = holders \cup {[lock |-> lock, holder |-> c]}
    /\ UNCHANGED <<redis, kv, invoked, service, sessions, search_request, users>>

\* get_or_set with one lock for all keys
GetOrSetCall_OneLock(c, key, getter) ==
    LET lock == IF locks["k1"] = None
                THEN [key |-> "k1", by |-> c]
                ELSE Get(locks["k1"]) IN
    /\ gets[c].pc \in {"idle", "returned"}
    /\ redis # "none"
    /\ locks' = [locks EXCEPT !["k1"] = Some(lock)]
    /\ IF Locked(lock)
       THEN /\ gets' = [gets EXCEPT ![c] =
                    [IdleGet EXCEPT !.pc = "acquire", !.key = key,
                                    !.getter = getter, !.lock = Some(lock)]]
            /\ UNCHANGED holders
       ELSE /\ gets' = [gets EXCEPT ![c] =
                    [IdleGet EXCEPT !.pc = "get", !.key = key,
                                    !.getter = getter, !.lock = Some(lock)]]
            /\ holders' = holders \cup {[lock |-> lock, holder |-> c]}
    /\ UNCHANGED <<redis, kv, invoked, service, sessions, search_request, users>>

\* Lines 35-51: get_or_set(key, getter_func) is called by the coroutine
\* whose new frame is given.  Without a client
\* the getter goes to the executor at once (40-44).  Otherwise the lock of
\* the key is looked up, created if there is none (47-49), and taken if it
\* is free; if it is held the coroutine suspends in acquire (51).
GetOrSetEnter(c, key, getter, frame) ==
    /\ gets[c].pc \in {"idle", "returned"}
    /\ IF redis = "none"
       THEN /\ Invocations(key) < MaxInvocations
            /\ gets' = [gets EXCEPT ![c] =
                    [frame EXCEPT !.pc = "bypass", !.key = key,
                                    !.getter = getter]]
            /\ invoked' = Invoke(key, getter)
            /\ UNCHANGED <<locks, holders>>
       ELSE LET lock == IF locks[key] = None
                        THEN [key |-> key, by |-> c]
                        ELSE Get(locks[key]) IN
            /\ locks' = [locks EXCEPT ![key] = Some(lock)]
            /\ IF Locked(lock)
               THEN /\ gets' = [gets EXCEPT ![c] =
                            [frame EXCEPT !.pc = "acquire", !.key = key,
                                            !.getter = getter,
                                            !.lock = Some(lock)]]
                    /\ UNCHANGED holders
               ELSE /\ gets' = [gets EXCEPT ![c] =
                            [frame EXCEPT !.pc = "get", !.key = key,
                                            !.getter = getter,
                                            !.lock = Some(lock)]]
                    /\ holders' = holders \cup {[lock |-> lock, holder |-> c]}
            /\ UNCHANGED invoked
    /\ UNCHANGED <<redis, kv, service, sessions, search_request>>

\* get_or_set(key, getter_func) called on its own
GetOrSetCall(c, key, getter) ==
    GetOrSetEnter(c, key, getter, IdleGet) /\ UNCHANGED users

\* Line 51: the lock has been released and the waiting coroutine takes it.
GetOrSetAcquire(c) ==
    /\ gets[c].pc = "acquire"
    /\ ~Locked(Get(gets[c].lock))
    /\ holders' = holders \cup {[lock |-> Get(gets[c].lock), holder |-> c]}
    /\ gets' = [gets EXCEPT ![c].pc = "get"]
    /\ UNCHANGED <<redis, kv, locks, invoked, service, sessions, search_request, users>>

\* Lines 53-56: Redis answers the get with a value, which is decoded and
\* returned.
GetOrSetHit(c) ==
    LET f == gets[c] IN
    /\ f.pc = "get"
    /\ redis = "up"
    /\ Truthy(kv[f.key])
    /\ gets' = [gets EXCEPT ![c] =
            [f EXCEPT !.pc = "returned",
                      !.ret = Returned(json_loads(Get(kv[f.key])))]]
    /\ Release(c)
    /\ UNCHANGED <<redis, kv, locks, invoked, service, sessions, search_request, users>>

\* Lines 53-61: Redis answers the get with nothing and the getter goes to
\* the executor.
GetOrSetMiss(c) ==
    LET f == gets[c] IN
    /\ f.pc = "get"
    /\ redis = "up"
    /\ ~Truthy(kv[f.key])
    /\ Invocations(f.key) < MaxInvocations
    /\ gets' = [gets EXCEPT ![c].pc = "getter"]
    /\ invoked' = Invoke(f.key, f.getter)
    /\ UNCHANGED <<redis, kv, locks, holders, service, sessions, search_request, users>>

\* Line 53 with the server unreachable: the get raises, the exception
\* leaves the async with block and get_or_set.
GetOrSetGetRaises(c) ==
    /\ gets[c].pc = "get"
    /\ redis = "down"
    /\ gets' = [gets EXCEPT ![c] =
            [@ EXCEPT !.pc = "returned", !.ret = Raised("ConnectionError")]]
    /\ Release(c)
    /\ UNCHANGED <<redis, kv, locks, invoked, service, sessions, search_request, users>>

\* Lines 61-65: the getter returns, the value is serialized and the set is
\* sent.
GetOrSetGetter(c) ==
    /\ gets[c].pc = "getter"
    /\ gets' = [gets EXCEPT ![c] =
            [@ EXCEPT !.pc = "set", !.new_value = Some(gets[c].getter)]]
    /\ UNCHANGED <<redis, kv, locks, holders, invoked, service, sessions, search_request, users>>

\* Lines 65-67: the value is stored and get_or_set returns it.
GetOrSetSet(c) ==
    LET f == gets[c] IN
    /\ f.pc = "set"
    /\ redis = "up"
    /\ kv' = [kv EXCEPT ![f.key] = Some(json_dumps(Get(f.new_value)))]
    /\ gets' = [gets EXCEPT ![c] =
            [f EXCEPT !.pc = "returned", !.ret = Returned(Get(f.new_value))]]
    /\ Release(c)
    /\ UNCHANGED <<redis, locks, invoked, service, sessions, search_request, users>>

\* Line 65 with the server unreachable.
GetOrSetSetRaises(c) ==
    /\ gets[c].pc = "set"
    /\ redis = "down"
    /\ gets' = [gets EXCEPT ![c] =
            [@ EXCEPT !.pc = "returned", !.ret = Raised("ConnectionError")]]
    /\ Release(c)
    /\ UNCHANGED <<redis, kv, locks, invoked, service, sessions, search_request, users>>

\* Line 44: the getter returns and get_or_set returns its value.
GetOrSetBypass(c) ==
    /\ gets[c].pc = "bypass"
    /\ gets' = [gets EXCEPT ![c] =
            [@ EXCEPT !.pc = "returned", !.ret = Returned(gets[c].getter)]]
    /\ UNCHANGED <<redis, kv, locks, holders, invoked, service, sessions, search_request, users>>

\* The Redis server becomes unreachable.
RedisDown ==
    /\ redis = "up"
    /\ redis' = "down"
    /\ UNCHANGED <<kv, locks, holders, gets, invoked, service, sessions, search_request, users>>

GetOrSetStep(c) ==
    \/ \E k \in Keys, v \in PyValues : GetOrSetCall(c, k, v)
    \/ GetOrSetAcquire(c)
    \/ GetOrSetHit(c)
    \/ GetOrSetMiss(c)
    \/ GetOrSetGetRaises(c)
    \/ GetOrSetGetter(c)
    \/ GetOrSetSet(c)
    \/ GetOrSetSetRaises(c)
    \/ GetOrSetBypass(c)

NextCache ==
    \/ \E c \in CacheCallers : GetOrSetStep(c)
    \/ RedisDown

\* The cache with the connection attribute it got at construction: a client
\* (line 29) or None (line 33).
InitConnected ==
    /\ InitService
    /\ \E r \in {"up", "none"} : InitCache(r)
    /\ search_request = NoSearchRequest
    /\ users = NoUsers

SpecCache == InitConnected /\ [][NextCache]_vars

\* ------------------------------------------------- invalidate and clear
\* Lines 69-71: invalidate(key) is awaited.  Without a client it returns at
\* once; with one it suspends in delete.
InvalidateEnter(c, key) ==
    /\ gets[c].pc \in {"idle", "returned"}
    /\ gets' = [gets EXCEPT ![c] =
            IF redis = "none"
            THEN [IdleGet EXCEPT !.pc = "returned", !.key = key,
                                 !.op = "invalidate",
                                 !.seen = Invocations(key),
                                 !.ret = Returned([py |-> "None"])]
            ELSE [IdleGet EXCEPT !.pc = "delete", !.key = key,
                                 !.op = "invalidate",
                                 !.seen = Invocations(key)]]
    /\ UNCHANGED <<redis, kv, locks, holders, invoked, service, sessions, search_request>>

\* invalidate(key) awaited on its own
InvalidateCall(c, key) == InvalidateEnter(c, key) /\ UNCHANGED users

\* invalidate that flushes the database
InvalidateDelete_Flushdb(c) ==
    LET f == gets[c] IN
    /\ f.pc = "delete"
    /\ redis = "up"
    /\ kv' = [k \in DOMAIN kv |-> None]
    /\ gets' = [gets EXCEPT ![c] =
            [f EXCEPT !.pc = "returned", !.ret = Returned([py |-> "None"])]]
    /\ UNCHANGED <<redis, locks, holders, invoked, service, sessions, search_request, users>>

\* Lines 72-73: Redis deletes the key and invalidate returns.
InvalidateDelete(c) ==
    LET f == gets[c] IN
    /\ f.pc = "delete"
    /\ redis = "up"
    /\ kv' = [kv EXCEPT ![f.key] = None]
    /\ gets' = [gets EXCEPT ![c] =
            [f EXCEPT !.pc = "returned", !.ret = Returned([py |-> "None"])]]
    /\ UNCHANGED <<redis, locks, holders, invoked, service, sessions, search_request, users>>

\* Line 72 with the server unreachable.
InvalidateDeleteRaises(c) ==
    /\ gets[c].pc = "delete"
    /\ redis = "down"
    /\ gets' = [gets EXCEPT ![c] =
            [@ EXCEPT !.pc = "returned", !.ret = Raised("ConnectionError")]]
    /\ UNCHANGED <<redis, kv, locks, holders, invoked, service, sessions, search_request, users>>

\* Lines 75-77: clear() is awaited, as the handler of routers/admin.py
\* (line 26) does.
ClearCall(c) ==
    /\ gets[c].pc \in {"idle", "returned"}
    /\ gets' = [gets EXCEPT ![c] =
            IF redis = "none"
            THEN [IdleGet EXCEPT !.pc = "returned", !.op = "clear",
                                 !.ret = Returned([py |-> "None"])]
            ELSE [IdleGet EXCEPT !.pc = "flushdb", !.op = "clear"]]
    /\ UNCHANGED <<redis, kv, locks, holders, invoked, service, sessions, search_request, users>>

\* Lines 78-79: Redis flushes the database and clear returns.
ClearFlushdb(c) ==
    LET f == gets[c] IN
    /\ f.pc = "flushdb"
    /\ redis = "up"
    /\ kv' = [k \in DOMAIN kv |-> None]
    /\ gets' = [gets EXCEPT ![c] =
            [f EXCEPT !.pc = "returned", !.ret = Returned([py |-> "None"])]]
    /\ UNCHANGED <<redis, locks, holders, invoked, service, sessions, search_request, users>>

\* Line 78 with the server unreachable.
ClearFlushdbRaises(c) ==
    /\ gets[c].pc = "flushdb"
    /\ redis = "down"
    /\ gets' = [gets EXCEPT ![c] =
            [@ EXCEPT !.pc = "returned", !.ret = Raised("ConnectionError")]]
    /\ UNCHANGED <<redis, kv, locks, holders, invoked, service, sessions, search_request, users>>

InvalidateStep(c) ==
    \/ \E k \in Keys : InvalidateCall(c, k)
    \/ InvalidateDelete(c)
    \/ InvalidateDeleteRaises(c)
    \/ ClearCall(c)
    \/ ClearFlushdb(c)
    \/ ClearFlushdbRaises(c)

\* get_or_set with one getter, which returns a list
ListGetOrSetStep(c) ==
    \/ \E k \in Keys : GetOrSetCall(c, k, [py |-> "[]"])
    \/ GetOrSetAcquire(c)
    \/ GetOrSetHit(c)
    \/ GetOrSetMiss(c)
    \/ GetOrSetGetRaises(c)
    \/ GetOrSetGetter(c)
    \/ GetOrSetSet(c)
    \/ GetOrSetSetRaises(c)
    \/ GetOrSetBypass(c)

\* The cache with callers of get_or_set, invalidate and clear.
NextInvalidate ==
    \/ \E c \in CacheCallers : ListGetOrSetStep(c)
    \/ \E c \in CacheCallers : InvalidateStep(c)
    \/ RedisDown

SpecInvalidate == InitConnected /\ [][NextInvalidate]_vars

\* ------------------------------------------------ the endpoints of main.py
\* main.py 53-64: the root endpoint.  With force_refresh line 58 calls
\* request_cache.invalidate(query) and drops the coroutine object it gets:
\* the coroutine is never awaited, so that not one line of invalidate runs.
\* Then get_or_set is awaited; what it returns is the message of the
\* response, what it raises becomes an HTTP 500.
RootCall(c, query, force_refresh) ==
    GetOrSetEnter(c, query, [py |-> "[]"],
                  [IdleGet EXCEPT !.op = "root",
                                  !.force_refresh = force_refresh])
    /\ UNCHANGED users

\* main.py 82-91: the clear_cache endpoint.  Line 90 calls
\* request_cache.clear() and drops the coroutine object: clear never runs.
\* The success message is returned.
ClearCacheMain(c) ==
    /\ gets[c].pc \in {"idle", "returned"}
    /\ gets' = [gets EXCEPT ![c] =
            [IdleGet EXCEPT !.pc = "returned", !.op = "clear_cache",
                !.ret = Returned([py |-> "Cache cleared successfully"])]]
    /\ UNCHANGED <<redis, kv, locks, holders, invoked, service, sessions, search_request, users>>

\* routers/admin.py 21-27: the clear_cache endpoint of the router awaits
\* clear() and returns the success message.
ClearCacheRouterCall(c) ==
    /\ gets[c].pc \in {"idle", "returned"}
    /\ gets' = [gets EXCEPT ![c] =
            IF redis = "none"
            THEN [IdleGet EXCEPT !.pc = "returned", !.op = "clear_cache",
                    !.ret = Returned([py |-> "Cache cleared successfully"])]
            ELSE [IdleGet EXCEPT !.pc = "flushdb", !.op = "clear_cache"]]
    /\ UNCHANGED <<redis, kv, locks, holders, invoked, service, sessions, search_request, users>>

ClearCacheRouterFlushdb(c) ==
    LET f == gets[c] IN
    /\ f.pc = "flushdb"
    /\ redis = "up"
    /\ kv' = [k \in DOMAIN kv |-> None]
    /\ gets' = [gets EXCEPT ![c] =
            [f EXCEPT !.pc = "returned",
                !.ret = Returned([py |-> "Cache cleared successfully"])]]
    /\ UNCHANGED <<redis, locks, holders, invoked, service, sessions, search_request, users>>

EndpointStep(c) ==
    \/ \E q \in Keys, f \in BOOLEAN : RootCall(c, q, f)
    \/ GetOrSetAcquire(c)
    \/ GetOrSetHit(c)
    \/ GetOrSetMiss(c)
    \/ GetOrSetGetRaises(c)
    \/ GetOrSetGetter(c)
    \/ GetOrSetSet(c)
    \/ GetOrSetSetRaises(c)
    \/ GetOrSetBypass(c)
    \/ ClearCacheMain(c)
    \/ ClearCacheRouterCall(c)
    \/ ClearCacheRouterFlushdb(c)
    \/ ClearFlushdbRaises(c)

NextEndpoints ==
    \/ \E c \in CacheCallers : EndpointStep(c)
    \/ RedisDown

SpecEndpoints == InitConnected /\ [][NextEndpoints]_vars

\* ------------------------------------------------- getters that raise
\* get_or_set whose getter failure leaves the lock held
GetOrSetGetterRaises_KeepsLock(c) ==
    /\ gets[c].pc = "getter"
    /\ gets' = [gets EXCEPT ![c] =
            [@ EXCEPT !.pc = "returned", !.ret = Raised("getter error")]]
    /\ UNCHANGED <<redis, kv, locks, holders, invoked, service, sessions, search_request, users>>

\* Line 61: the getter raises in the executor.  The exception leaves the
\* async with block of line 51, which releases the lock, and get_or_set;
\* line 65 is not reached.
GetOrSetGetterRaises(c) ==
    /\ gets[c].pc = "getter"
    /\ gets' = [gets EXCEPT ![c] =
            [@ EXCEPT !.pc = "returned", !.ret = Raised("getter error")]]
    /\ Release(c)
    /\ UNCHANGED <<redis, kv, locks, invoked, service, sessions, search_request, users>>

\* Line 44: the getter raises in the executor and there is no client.
GetOrSetBypassRaises(c) ==
    /\ gets[c].pc = "bypass"
    /\ gets' = [gets EXCEPT ![c] =
            [@ EXCEPT !.pc = "returned", !.ret = Raised("getter error")]]
    /\ UNCHANGED <<redis, kv, locks, holders, invoked, service, sessions, search_request, users>>

\* The cache with getters that return and getters that raise.
NextGetter ==
    \/ NextCache
    \/ \E c \in CacheCallers : GetOrSetGetterRaises(c)
    \/ \E c \in CacheCallers : GetOrSetBypassRaises(c)

SpecGetter == InitConnected /\ [][NextGetter]_vars

\* ------------------------------------------------------------ UserService
\* services/user_service.py.  A UserService coroutine awaits one cache
\* operation after another; the frame of the operation under way is
\* gets[c], and a step below is the code between the return of one
\* operation and the call of the next.
RecentChecked == 10      \* existing_requests[-10:] and request_ids[-10:]
DuplicateMinutes == 15   \* time_diff <= 15
KeptRequests == 50       \* existing_requests[-50:]

MaxNew == 2         \* request ids drawn in one behaviour
MaxUserCalls == 2   \* UserService calls of one caller in one behaviour

UserQueries == {"q1", "q2"}

\* the one user of the model
user_id == "u1"

\* f"user_requests:{user_id}" and f"request:{user_id}:{request_id}"
user_requests_key == "user_requests:" \o user_id
request_key(request_id) == "request:" \o user_id \o ":" \o ToString(request_id)

\* the keys of the store when ids 1..n can be named
UserKeys(n) == {user_requests_key} \cup {request_key(i) : i \in 1..n}

\* the request ids that the store has a key for
RequestIds ==
    {i \in 1..(KeptRequests + MaxNew + 1) : request_key(i) \in DOMAIN kv}

\* Python values: None, a list of request ids, a request dict
PyNone == [py |-> "None"]
PyList(ids) == IF ids = <<>> THEN [py |-> "[]"] ELSE [py |-> "list", items |-> ids]
PyDict(d) == [py |-> "dict", dict |-> d]
isinstance_list(v) == v.py \in {"[]", "list"}
Items(v) == IF v.py = "list" THEN v.items ELSE <<>>
\* the truth value of a Python value
truth(v) == v.py \notin {"None", "[]"}

\* seq[-n:]
Last(seq, n) ==
    SubSeq(seq, IF Len(seq) > n THEN Len(seq) - n + 1 ELSE 1, Len(seq))

\* str(uuid.uuid4()) (line 34): an id that no call has drawn and no stored
\* request has
FreshId ==
    LET used == {0} \cup {users[c].request_id : c \in CacheCallers}
                    \cup {i \in RequestIds : kv[request_key(i)] # None}
    IN  1 + CHOOSE m \in used : \A i \in used : i <= m

\* the frame of a cache operation that UserService awaits
UserGet == [IdleGet EXCEPT !.op = "user_service"]

\* the cache operation that caller c awaits has returned or raised
Done(c) == gets[c].pc = "returned" /\ gets[c].ret # None
Raises(c) == Get(gets[c].ret).kind = "raise"
Value(c) == Get(gets[c].ret).value

\* what the request key of an id holds, decoded
Stored(request_id) ==
    IF kv[request_key(request_id)] = None
    THEN PyNone
    ELSE json_loads(Get(kv[request_key(request_id)]))

\* what the user's list key holds: the list of ids, the empty list if it
\* holds nothing
StoredList ==
    IF kv[user_requests_key] = None
    THEN <<>>
    ELSE Items(json_loads(Get(kv[user_requests_key])))

\* Lines 61-67: the dict of a new pending request.
request_data(query, current_time, request_id) ==
    PyDict([query |-> query, result |-> None, status |-> "pending",
            timestamp |-> isoformat(current_time), request_id |-> request_id,
            completed_at |-> None])

\* Lines 98-100: the dict with the result.  The key completed_at is absent
\* from a pending dict, which the model writes as None.
with_result(existing_data, completed_time) ==
    PyDict([existing_data.dict EXCEPT !.result = Some("result"),
                                      !.status = "completed",
                                      !.completed_at = Some(isoformat(completed_time))])

\* Lines 50-54: the test of one recent request.
is_duplicate(data, query, current_time) ==
    /\ truth(data)
    /\ data.py = "dict"
    /\ data.dict.query = query
    /\ current_time - fromisoformat(data.dict.timestamp) <= DuplicateMinutes
    /\ data.dict.status # "pending"

\* a UserService call ends
UserReturns(c, value) ==
    /\ users' = [users EXCEPT ![c] = [@ EXCEPT !.pc = "returned", !.ret = value]]
    /\ UNCHANGED <<service, sessions, cachevars, search_request>>

\* Lines 31-39: store_pending_request(user_id, query) is called; it reads
\* the clock, draws its request id and asks for the user's list.
StorePendingCall(c, query) ==
    /\ users[c].pc \in {"idle", "returned"}
    /\ users[c].calls < MaxUserCalls
    /\ request_key(FreshId) \in DOMAIN kv
    /\ users' = [users EXCEPT ![c] =
            [IdleUser EXCEPT !.pc = "list", !.op = "store_pending_request",
                             !.query = query, !.request_id = FreshId,
                             !.current_time = now,
                             !.calls = users[c].calls + 1]]
    /\ GetOrSetEnter(c, user_requests_key, PyList(<<>>), UserGet)

\* Line 71: the new request is handed to get_or_set under its own key.
StorePendingCreate(c, u) ==
    /\ users' = [users EXCEPT ![c] = [u EXCEPT !.pc = "create"]]
    /\ GetOrSetEnter(c, request_key(u.request_id),
                     request_data(u.query, u.current_time, u.request_id),
                     UserGet)

\* Lines 46-49: the i-th of the last ten ids is looked up.
StorePendingLookup(c, u, i) ==
    /\ users' = [users EXCEPT ![c] = [u EXCEPT !.pc = "scan", !.i = i]]
    /\ GetOrSetEnter(c, request_key(Last(u.existing_requests, RecentChecked)[i]),
                     PyNone, UserGet)

\* Lines 39-49: the list has been read (what is no list, and a read that
\* raised, count as the empty list); the scan of the last ten ids starts, or
\* with no ids the new request is stored.
StorePendingListed(c) ==
    LET existing == IF Raises(c) \/ ~isinstance_list(Value(c))
                    THEN <<>> ELSE Items(Value(c))
        u == [users[c] EXCEPT !.existing_requests = existing] IN
    /\ users[c].pc = "list"
    /\ users[c].op = "store_pending_request"
    /\ Done(c)
    /\ IF existing = <<>>
       THEN StorePendingCreate(c, u)
       ELSE StorePendingLookup(c, u, 1)

\* Lines 49-58: one recent request has been read.  A duplicate ends the
\* call with the id of that request; otherwise the scan goes on, and after
\* the last id the new request is stored.
StorePendingScanned(c) ==
    LET u == users[c]
        window == Last(u.existing_requests, RecentChecked) IN
    /\ u.pc = "scan"
    /\ u.op = "store_pending_request"
    /\ Done(c)
    /\ IF ~Raises(c) /\ is_duplicate(Value(c), u.query, u.current_time)
       THEN UserReturns(c, Returned(window[u.i]))
       ELSE IF u.i < Len(window)
            THEN StorePendingLookup(c, u, u.i + 1)
            ELSE StorePendingCreate(c, u)

\* store_pending_request that keeps every id
StorePendingCreated_KeepsAll(c) ==
    LET u == users[c] IN
    /\ u.pc = "create"
    /\ Done(c)
    /\ IF Raises(c)
       THEN UserReturns(c, gets[c].ret)
       ELSE /\ users' = [users EXCEPT ![c] =
                    [u EXCEPT !.pc = "invalidate",
                              !.existing_requests = Append(@, u.request_id)]]
            /\ InvalidateEnter(c, user_requests_key)

\* Lines 71-79: the new request has been stored; its id is appended, the
\* last fifty ids are kept and the user's list is invalidated.  What line
\* 71 raises leaves store_pending_request.
StorePendingCreated(c) ==
    LET u == users[c] IN
    /\ u.pc = "create"
    /\ Done(c)
    /\ IF Raises(c)
       THEN UserReturns(c, gets[c].ret)
       ELSE /\ users' = [users EXCEPT ![c] =
                    [u EXCEPT !.pc = "invalidate",
                              !.existing_requests =
                                  Last(Append(@, u.request_id), KeptRequests)]]
            /\ InvalidateEnter(c, user_requests_key)

\* Lines 79-80: the list is handed to get_or_set under the user's key.
StorePendingInvalidated(c) ==
    LET u == users[c] IN
    /\ u.pc = "invalidate"
    /\ Done(c)
    /\ IF Raises(c)
       THEN UserReturns(c, gets[c].ret)
       ELSE /\ users' = [users EXCEPT ![c] = [u EXCEPT !.pc = "put"]]
            /\ GetOrSetEnter(c, user_requests_key,
                             PyList(u.existing_requests), UserGet)

\* Lines 80-83: store_pending_request returns its request id.
StorePendingReturns(c) ==
    /\ users[c].pc = "put"
    /\ Done(c)
    /\ UserReturns(c, IF Raises(c) THEN gets[c].ret
                      ELSE Returned(users[c].request_id))

\* Lines 86-92: update_request_with_result(user_id, request_id, result) is
\* called and asks for the request.  existed keeps whether the store held
\* the request at the call.
UpdateCall(c, request_id) ==
    /\ users[c].pc \in {"idle", "returned"}
    /\ users[c].calls < MaxUserCalls
    /\ users' = [users EXCEPT ![c] =
            [IdleUser EXCEPT !.pc = "read",
                             !.op = "update_request_with_result",
                             !.request_id = request_id,
                             !.existed = truth(Stored(request_id)),
                             !.calls = users[c].calls + 1]]
    /\ GetOrSetEnter(c, request_key(request_id), PyNone, UserGet)

\* Lines 92-103: the request has been read.  Without one the call returns
\* (93-95); with one the result, the status and completed_at are set and
\* the key is invalidated.  What is raised is logged (108-109).
UpdateRead(c) ==
    LET u == users[c] IN
    /\ u.pc = "read"
    /\ Done(c)
    /\ IF Raises(c) \/ ~truth(Value(c))
       THEN UserReturns(c, Returned(PyNone))
       ELSE /\ users' = [users EXCEPT ![c] =
                    [u EXCEPT !.pc = "upd_invalidate",
                              !.request_data = Some(with_result(Value(c), now))]]
            /\ InvalidateEnter(c, request_key(u.request_id))

\* Lines 103-104: the updated dict is handed to get_or_set.
UpdateInvalidated(c) ==
    LET u == users[c] IN
    /\ u.pc = "upd_invalidate"
    /\ Done(c)
    /\ IF Raises(c)
       THEN UserReturns(c, Returned(PyNone))
       ELSE /\ users' = [users EXCEPT ![c] = [u EXCEPT !.pc = "upd_put"]]
            /\ GetOrSetEnter(c, request_key(u.request_id),
                             Get(u.request_data), UserGet)

\* Lines 104-109: update_request_with_result returns.
UpdateReturns(c) ==
    /\ users[c].pc = "upd_put"
    /\ Done(c)
    /\ UserReturns(c, Returned(PyNone))

\* UserHistoryResponse (137-142), and the one of the except clause (145-150)
UserHistoryResponse(total_requests, recent_requests) ==
    Returned([py |-> "UserHistoryResponse", total_requests |-> total_requests,
              recent_requests |-> recent_requests])

\* Lines 119-124: get_user_history(user_id) is called and asks for the
\* user's list.
HistoryCall(c) ==
    /\ users[c].pc \in {"idle", "returned"}
    /\ users[c].calls < MaxUserCalls
    /\ users' = [users EXCEPT ![c] =
            [IdleUser EXCEPT !.pc = "list", !.op = "get_user_history",
                             !.calls = users[c].calls + 1]]
    /\ GetOrSetEnter(c, user_requests_key, PyList(<<>>), UserGet)

\* Lines 128-131: the i-th of the last ten ids is looked up.
HistoryLookup(c, u, i) ==
    /\ users' = [users EXCEPT ![c] = [u EXCEPT !.pc = "scan", !.i = i]]
    /\ GetOrSetEnter(c, request_key(Last(u.existing_requests, RecentChecked)[i]),
                     PyNone, UserGet)

\* Lines 124-131, 143-150: the list has been read.  A read that raised, and
\* a value that cannot be sliced, end in the except clause.
HistoryListed(c) ==
    LET u == users[c] IN
    /\ u.pc = "list"
    /\ u.op = "get_user_history"
    /\ Done(c)
    /\ IF Raises(c) \/ ~isinstance_list(Value(c))
       THEN UserReturns(c, UserHistoryResponse(0, <<>>))
       ELSE IF Items(Value(c)) = <<>>
            THEN UserReturns(c, UserHistoryResponse(0, <<>>))
            ELSE HistoryLookup(c, [u EXCEPT !.existing_requests = Items(Value(c))], 1)

\* Lines 131-142: one request has been read and, if there is one, added to
\* the history; after the last id the response is returned.
HistoryScanned(c) ==
    LET u == users[c]
        window == Last(u.existing_requests, RecentChecked)
        recent == IF ~Raises(c) /\ truth(Value(c))
                  THEN Append(u.recent_requests, Value(c))
                  ELSE u.recent_requests
        v == [u EXCEPT !.recent_requests = recent] IN
    /\ u.pc = "scan"
    /\ u.op = "get_user_history"
    /\ Done(c)
    /\ IF u.i < Len(window)
       THEN HistoryLookup(c, v, u.i + 1)
       ELSE /\ users' = [users EXCEPT ![c] =
                    [v EXCEPT !.pc = "returned",
                              !.ret = UserHistoryResponse(
                                          Len(u.existing_requests), recent)]]
            /\ UNCHANGED <<service, sessions, cachevars, search_request>>

\* the steps of the cache operation that a UserService call awaits
UserCacheStep(c) ==
    \/ GetOrSetAcquire(c)
    \/ GetOrSetHit(c)
    \/ GetOrSetMiss(c)
    \/ GetOrSetGetter(c)
    \/ GetOrSetSet(c)
    \/ InvalidateDelete(c)

StorePendingStep(c) ==
    \/ \E q \in UserQueries : StorePendingCall(c, q)
    \/ StorePendingListed(c)
    \/ StorePendingScanned(c)
    \/ StorePendingCreated(c)
    \/ StorePendingInvalidated(c)
    \/ StorePendingReturns(c)

UpdateStep(c) ==
    \/ \E i \in RequestIds : UpdateCall(c, i)
    \/ UpdateRead(c)
    \/ UpdateInvalidated(c)
    \/ UpdateReturns(c)

HistoryStep(c) ==
    \/ HistoryCall(c)
    \/ HistoryListed(c)
    \/ HistoryScanned(c)

\* The store of a user: available, with the keys given and nothing under
\* them.
InitUserStore(keys) ==
    /\ redis = "up"
    /\ kv = [k \in keys |-> None]
    /\ locks = [k \in keys |-> None]
    /\ holders = {}
    /\ gets = [c \in CacheCallers |-> IdleGet]
    /\ invoked = [k \in Keys |-> <<>>]

\* A user that has made no request yet.
InitUsers ==
    /\ InitService
    /\ InitUserStore(UserKeys(MaxNew))
    /\ search_request = NoSearchRequest
    /\ users = NoUsers

\* UserService called by concurrent coroutines for one user.
NextUsers ==
    \E c \in CacheCallers :
        \/ StorePendingStep(c)
        \/ UpdateStep(c)
        \/ HistoryStep(c)
        \/ UserCacheStep(c)

SpecUsers == InitUsers /\ [][NextUsers]_vars

\* The calls of one user made one after another, on a store that holds the
\* n requests made so far: the list <<1, ..., n>> and under every id its
\* request, stored age minutes ago with the query "q1" and pending, except
\* that request p, if there is one, has got its result since.
SeededStore(n, p, age) ==
    [k \in UserKeys(n + MaxNew) |->
        IF k = user_requests_key
        THEN IF n = 0 THEN None
             ELSE Some(json_dumps(PyList([i \in 1..n |-> i])))
        ELSE LET i == CHOOSE i \in 1..(n + MaxNew) : request_key(i) = k
                 pending == request_data("q1", 0 - age, i) IN
             IF i > n THEN None
             ELSE IF i = p THEN Some(json_dumps(with_result(pending, 0 - age)))
             ELSE Some(json_dumps(pending))]

\* p is no request, the latest one, the tenth and the eleventh from the end
SeedDone(n) == {0, n, n - RecentChecked + 1, n - RecentChecked} \cap 0..n

InitUserList ==
    /\ InitService
    /\ search_request = NoSearchRequest
    /\ users = NoUsers
    /\ redis = "up"
    /\ holders = {}
    /\ gets = [c \in CacheCallers |-> IdleGet]
    /\ invoked = [k \in Keys |-> <<>>]
    /\ \E n \in 0..KeptRequests :
       \E p \in SeedDone(n) :
       \E age \in {DuplicateMinutes, DuplicateMinutes + 1} :
          /\ kv = SeededStore(n, p, age)
          /\ locks = [k \in UserKeys(n + MaxNew) |-> None]

NextUserList ==
    \/ StorePendingStep("g1")
    \/ GetOrSetHit("g1")
    \/ GetOrSetMiss("g1")
    \/ GetOrSetGetter("g1")
    \/ GetOrSetSet("g1")
    \/ InvalidateDelete("g1")

SpecUserList == InitUserList /\ [][NextUserList]_vars

\* ------------------------------------------ models/requests.py: SearchRequest
MaxLen == 11        \* characters of a query

\* A query is a sequence of characters: a letter or a blank.
Chars == {"a", " "}
QueryStrings == UNION {[1..n -> Chars] : n \in 0..MaxLen}

\* str.strip()
RECURSIVE lstrip(_)
lstrip(v) == IF v # <<>> /\ Head(v) = " " THEN lstrip(Tail(v)) ELSE v

RECURSIVE rstrip(_)
rstrip(v) ==
    IF v # <<>> /\ v[Len(v)] = " "
    THEN rstrip(SubSeq(v, 1, Len(v) - 1))
    ELSE v

strip(v) == rstrip(lstrip(v))

\* A request body with the query given has been received.
InitValidation ==
    /\ InitService
    /\ InitCache("up")
    /\ \E v \in QueryStrings :
          search_request = [pc |-> "received", query |-> v, value |-> None]
    /\ users = NoUsers

\* Lines 9-19: pydantic builds the SearchRequest.  The constraint of the
\* field (min_length=5, line 10) is tested on the string as received, then
\* validate_query_not_empty (14-19) tests the stripped string and returns
\* it.
SearchRequestValidate ==
    LET v == search_request.query IN
    /\ search_request.pc = "received"
    /\ search_request' =
          IF Len(v) < 5
          THEN [search_request EXCEPT !.pc = "rejected"]
          ELSE IF v = <<>> \/ strip(v) = <<>> \/ Len(strip(v)) < 5
          THEN [search_request EXCEPT !.pc = "rejected"]
          ELSE [search_request EXCEPT !.pc = "accepted",
                                      !.value = Some(strip(v))]
    /\ UNCHANGED <<service, sessions, cachevars, users>>

SpecValidation == InitValidation /\ [][SearchRequestValidate]_vars

\* ===================================================================
\* Properties
\* ===================================================================

\* The Job stored for a digest (None when nothing is stored).
JobOf(query_hash) ==
    IF hget(store, query_hash) = None THEN None
    ELSE Some(loads(Get(hget(store, query_hash))))

\* Caller c's start_search call returns in this step, after a suspension.
ReturnsFrom(c) == callers[c].pc # "idle" /\ callers'[c].pc = "idle"

\* The response of the handler that returns in this step.
TheResponse == Get(returned').response

\* A background task that was unfinished when caller c's call arrived is
\* still unfinished.
RanThroughout(c) ==
    callers[c].busy \cap Unfinished(sha256(callers[c].query)) # {}

AtMostOneUnfinished ==
    \A d \in Digests : Cardinality(Unfinished(d)) <= 1

\* Nothing was launched, registered, cancelled or removed in this step.
NoNewWork == tasks' = tasks /\ background_tasks' = background_tasks

\* C1 as claimed: at most one unfinished background task per digest, and a
\* start_search call during which a background task of its query is
\* running (unfinished when the call arrives and still when it returns)
\* returns the digest with status pending, launches nothing and cancels
\* nothing.
C1_Original ==
    [][ /\ AtMostOneUnfinished'
        /\ \A c \in Callers :
            /\ ( ReturnsFrom(c) /\ RanThroughout(c) )
               => /\ TheResponse.task_id = sha256(callers[c].query)
                  /\ TheResponse.status = "pending"
                  /\ callers[c].task = 0
                  /\ NoNewWork
            /\ \A q \in Queries :
               ( Unfinished(sha256(q)) # {} /\ StartSearchCall(c, q, TRUE) )
               => /\ returned' # returned
                  /\ TheResponse.task_id = sha256(q)
                  /\ TheResponse.status = "pending"
                  /\ NoNewWork
      ]_vars

\* C1 as amended: at most one unfinished background task per digest, and a
\* start_search call during which a background task of its query is
\* running returns the digest, launches nothing and cancels nothing; its
\* status is pending, except that a call without force_refresh returns
\* completed (from the cache) when its cache read found a completed Job and
\* failed when its cache read raised.
C1_Dedup ==
    [][ /\ AtMostOneUnfinished'
        /\ \A c \in Callers :
            /\ ( ReturnsFrom(c) /\ RanThroughout(c) )
               => /\ TheResponse.task_id = sha256(callers[c].query)
                  /\ NoNewWork
                  /\ callers[c].task = 0
                  /\ \/ TheResponse.status = "pending"
                     \/ /\ ~callers[c].force_refresh
                        /\ callers[c].pc = "hget_done"
                        /\ callers[c].cached_value # None
                        /\ loads(Get(callers[c].cached_value)).status = "completed"
                        /\ TheResponse.status = "completed"
                        /\ TheResponse.from_cache = Some(TRUE)
                     \/ /\ ~callers[c].force_refresh
                        /\ callers[c].pc = "hget"
                        /\ faults' = faults + 1
                        /\ TheResponse.status = "failed"
            /\ \A q \in Queries :
               ( Unfinished(sha256(q)) # {} /\ StartSearchCall(c, q, TRUE) )
               => /\ returned' # returned
                  /\ TheResponse.task_id = sha256(q)
                  /\ TheResponse.status = "pending"
                  /\ NoNewWork
      ]_vars

\* A call has joined a running background task: it was answered "already
\* in progress" and the task is still unfinished.
C1_Witness ==
    /\ returned # None
    /\ Get(returned).response = InProgressResponse("d1")
    /\ Unfinished("d1") # {}

\* What get_search_status(task_id) answers when its read is served from
\* store s.
StatusIn(s, task_id) == get_search_status(hget(s, task_id), task_id)

\* The first background task has finished its upstream computation
\* successfully and has written its result.
FirstComputationDone ==
    /\ Len(tasks) >= 1
    /\ tasks[1].pc \in {"sync", "done"}
    /\ tasks[1].error = None

\* C2 as claimed, with every start_search call made with force_refresh =
\* False: (i) when the call that launched the first background task (on the
\* empty store) returns pending, get_search_status answers pending; (ii)
\* once that call has returned and the upstream computation has finished
\* and its result has been written, with no store operation having raised
\* and no further task launched, get_search_status answers completed with
\* the result.
C2_Original ==
    [][ /\ \A c \in Callers :
            ( /\ ReturnsFrom(c)
              /\ callers[c].task = 1
              /\ TheResponse.status = "pending" )
            => StatusIn(store', TheResponse.task_id).status = "pending"
        /\ ( /\ FirstComputationDone'
             /\ Len(tasks') = 1
             /\ faults' = 0
             /\ \A c \in Callers : callers'[c].task # 1 )
           => /\ StatusIn(store', tasks'[1].query_hash).status = "completed"
              /\ StatusIn(store', tasks'[1].query_hash).result # None
      ]_vars

\* No background task of the digest is running or registered and no
\* start_search call for it is in progress.
Quiescent(query_hash) ==
    /\ Unfinished(query_hash) = {}
    /\ background_tasks[query_hash] = 0
    /\ \A c \in Callers :
        callers[c].pc # "idle" => sha256(callers[c].query) # query_hash

\* C3 as claimed: whenever a digest is quiescent, the Job stored for it (if
\* any) is completed or failed, never pending.
C3_Original ==
    \A d \in Digests :
        (Quiescent(d) /\ JobOf(d) # None)
        => Get(JobOf(d)).status \in {"completed", "failed"}

\* Caller c's start_search call, made with force_refresh = True, writes its
\* pending Job over the Job stored for the digest in this step.
ForcedWrite(c, query_hash) ==
    /\ callers[c].pc = "hset"
    /\ callers[c].force_refresh
    /\ sha256(callers[c].query) = query_hash
    /\ callers'[c].pc = "idle"
    /\ Get(JobOf(query_hash)').status = "pending"

\* C4 as claimed: the Job stored for a digest changes only from pending to
\* completed or from pending to failed; a completed or failed Job is not
\* replaced, and does not go back to pending, except by the pending write
\* of a start_search call made with force_refresh = True.
C4_Original ==
    [][ \A d \in Digests :
          (JobOf(d) # None /\ store'[d] # store[d])
          => \/ /\ Get(JobOf(d)).status = "pending"
                /\ Get(JobOf(d)').status \in {"completed", "failed"}
             \/ \E c \in Callers : ForcedWrite(c, d)
      ]_vars

\* The task that the step appended for the digest, just created.
Launched(query_hash) ==
    /\ Len(tasks') = Len(tasks) + 1
    /\ tasks'[Len(tasks')].query_hash = query_hash
    /\ tasks'[Len(tasks')].pc = "created"
    /\ background_tasks'[query_hash] = Len(tasks')

\* C5 as claimed: a start_search call made with force_refresh = True while
\* the stored Job is completed launches exactly one new background task
\* and returns status pending.
C5_Original ==
    [][ \A c \in Callers :
          /\ \A q \in Queries :
                (StartSearchCall(c, q, TRUE) /\ Completed(sha256(q)))
                => Launched(sha256(q))
          /\ ( /\ ReturnsFrom(c)
               /\ callers[c].force_refresh
               /\ callers[c].fresh )
             => TheResponse.status = "pending"
      ]_vars

\* C5, amended: a start_search call made with force_refresh = True while
\* the stored Job is completed and no background task of the query is
\* unfinished launches exactly one new background task; it returns status
\* pending, or failed when the store write of its pending Job raised.  While
\* a background task of the query is unfinished the call launches nothing
\* and answers pending.
C5_Refresh ==
    [][ \A c \in Callers :
          /\ \A q \in Queries :
                (Completed(sha256(q)) /\ StartSearchCall(c, q, TRUE))
                => IF Unfinished(sha256(q)) = {}
                   THEN Launched(sha256(q)) /\ returned' = returned
                   ELSE /\ NoNewWork
                        /\ returned' # returned
                        /\ TheResponse = InProgressResponse(sha256(q))
          /\ ( /\ ReturnsFrom(c)
               /\ callers[c].force_refresh
               /\ callers[c].fresh )
             => /\ callers[c].task # 0
                /\ NoNewWork
                /\ IF faults' = faults
                   THEN TheResponse.status = "pending"
                   ELSE TheResponse.status = "failed"
      ]_vars

\* A call made with force_refresh = True on a completed Job has just
\* launched the second background task.
C5_Witness ==
    \E c \in Callers :
        /\ callers[c].pc = "hset"
        /\ callers[c].force_refresh
        /\ callers[c].fresh
        /\ callers[c].task = 2
        /\ tasks[2].pc = "created"

\* Caller c's start_search call takes a step.
StepOf(c) == callers'[c] # callers[c]

\* C6: cache hit.  A start_search call made with force_refresh = False
\* whose cache read finds a completed Job returns status completed with the
\* stored result and from_cache = True; neither that step nor the steps of
\* the call before it launch a background task, change the registry or
\* change the store.
C6_CacheHit ==
    [][ \A c \in Callers :
          /\ ( /\ callers[c].pc = "hget_done"
               /\ ~callers[c].force_refresh
               /\ callers[c].cached_value # None
               /\ loads(Get(callers[c].cached_value)).status = "completed"
               /\ StepOf(c) )
             => /\ ReturnsFrom(c)
                /\ returned' # returned
                /\ TheResponse.task_id = sha256(callers[c].query)
                /\ TheResponse.status = "completed"
                /\ TheResponse.result =
                       loads(Get(callers[c].cached_value)).result
                /\ TheResponse.result # None
                /\ TheResponse.from_cache = Some(TRUE)
                /\ NoNewWork
                /\ store' = store
          /\ (StepOf(c) /\ callers'[c].pc \in {"hget", "hget_done"})
             => (NoNewWork /\ store' = store /\ returned' = returned)
      ]_vars

\* start_search has just answered from the cache.
C6_Witness ==
    /\ returned # None
    /\ Get(returned).op = "start_search"
    /\ Get(returned).response.status = "completed"
    /\ Get(returned).response.from_cache = Some(TRUE)
    /\ Get(returned).response.result = Get(JobOf("d1")).result

\* get_search_status returns in this step.
StatusReturns == poll.pc = "hget" /\ poll'.pc = "idle"

\* C7 as claimed: get_search_status returns status not_found for every
\* task_id for which no start_search call has been made.
C7_Original ==
    [][ (StatusReturns /\ poll.task_id \notin started)
        => TheResponse.status = "not_found"
      ]_vars

\* C7, amended: for a task_id for which no start_search call has been made
\* get_search_status returns status not_found when its store read succeeds
\* and status error when its store read raises; it never returns pending,
\* completed or failed.
C7_NotFound ==
    [][ (StatusReturns /\ poll.task_id \notin started)
        => /\ returned' # returned
           /\ Get(returned').op = "get_search_status"
           /\ TheResponse.task_id = poll.task_id
           /\ IF faults' = faults
              THEN TheResponse.status = "not_found"
              ELSE TheResponse.status = "error"
      ]_vars

\* get_search_status has just answered not_found for an id that was never
\* started, after start_search calls for another id.
C7_Witness ==
    /\ returned # None
    /\ Get(returned).op = "get_search_status"
    /\ Get(returned).response.status = "not_found"
    /\ Get(returned).response.task_id \notin started
    /\ started # {}

\* C8: get_search_status is a pure read.  Its steps change neither the
\* store, nor the registry, nor the background tasks, nor a start_search
\* call; and once called it can return at once, whatever the background
\* tasks are doing.
C8_PureRead ==
    [][ /\ (poll' # poll)
           => /\ store' = store
              /\ background_tasks' = background_tasks
              /\ tasks' = tasks
              /\ callers' = callers
        /\ (poll.pc = "hget") => ENABLED GetSearchStatusHget
      ]_vars

\* get_search_status has just answered pending while the background task of
\* the query is still running.
C8_Witness ==
    /\ returned # None
    /\ Get(returned).op = "get_search_status"
    /\ Get(returned).response.status = "pending"
    /\ Unfinished(Get(returned).response.task_id) # {}
    /\ poll.pc = "idle"

\* Caller c's start_search call for the query returns in this step.
StartSearchReturns(c, query) ==
    \/ ReturnsFrom(c) /\ callers[c].query = query
    \/ returned' # returned /\ StartSearchCall(c, query, TRUE)

\* C9: task identity.  Every response of start_search carries the digest of
\* its query as task_id; the pending Job is stored under that digest, so
\* that get_search_status with the returned task_id reads the Job of that
\* query.
C9_TaskIdentity ==
    [][ \A c \in Callers :
          /\ \A q \in Queries :
                StartSearchReturns(c, q)
                => /\ Get(returned').op = "start_search"
                   /\ TheResponse.task_id = sha256(q)
          /\ (ReturnsFrom(c) /\ store' # store)
             => /\ store'[TheResponse.task_id] =
                       Some(dumps(pending_request(callers[c].query,
                                                  callers[c].current_time)))
                /\ \A d \in Digests \ {TheResponse.task_id} :
                       store'[d] = store[d]
                /\ StatusIn(store', TheResponse.task_id).query =
                       Some(callers[c].query)
                /\ StatusIn(store', TheResponse.task_id).status = "pending"
          /\ (ReturnsFrom(c) /\ TheResponse.status = "pending"
                             /\ callers[c].task # 0)
             => store' # store \/ JobOf(TheResponse.task_id) # None
      ]_vars

\* start_search has just returned the digest of "q1" and the Job of "q1" is
\* stored under it.
C9_Witness ==
    /\ returned # None
    /\ Get(returned).op = "start_search"
    /\ Get(returned).response.task_id = sha256("q1")
    /\ JobOf(sha256("q1")) # None
    /\ Get(JobOf(sha256("q1"))).query = "q1"
    /\ StatusIn(store, Get(returned).response.task_id).query = Some("q1")

\* C10 as claimed: when the upstream computation of a background task
\* raises, the Job of its digest is written with status failed, the error
\* text and completed_at, so that get_search_status then reports failed
\* with that error; and no start_search call returns the failure.
C10_Original ==
    [][ /\ \A t \in 1..Len(tasks) :
            ( /\ tasks[t].pc = "hset_error"
              /\ tasks[t].error = Some(UpstreamError)
              /\ tasks'[t].pc = "done" )
            => LET r == StatusIn(store', tasks[t].query_hash) IN
               /\ r.status = "failed"
               /\ r.error = Some(UpstreamError)
               /\ r.completed_at = Some(isoformat(tasks[t].completed_at))
        /\ \A c \in Callers, q \in Queries :
            StartSearchReturns(c, q)
            => /\ TheResponse.error # Some(UpstreamError)
               /\ TheResponse.message # Some(UpstreamError)
      ]_vars

\* The database sync of background task t ends in this step without having
\* stored the search request.
SyncFails(t) ==
    /\ tasks[t].pc = "sync"
    /\ tasks'[t].pc # "sync"
    /\ db'.search_requests = db.search_requests

\* C11: a failure of the database sync is isolated.  When mirroring the
\* completed Job fails (creating the user and the task raises, or storing
\* the search request fails), the store is left as it is, so that a
\* completed Job keeps its status and its result; the background task ends
\* without taking its failure path; and no handler returns or changes
\* because of it.
C11_SyncIsolated ==
    [][ \A t \in 1..Len(tasks) :
          SyncFails(t)
          => /\ store' = store
             /\ Completed(tasks[t].query_hash)
                => /\ Completed(tasks[t].query_hash)'
                   /\ StatusIn(store', tasks[t].query_hash).result =
                          StatusIn(store, tasks[t].query_hash).result
             /\ tasks'[t].pc = "done"
             /\ tasks'[t].error = None
             /\ returned' = returned
             /\ callers' = callers
             /\ poll' = poll
      ]_vars

\* The database sync of the first background task has failed; its Job is
\* completed in the cache and nothing was stored in the database.
C11_Witness ==
    /\ Len(tasks) >= 1
    /\ tasks[1].pc = "done"
    /\ tasks[1].error = None
    /\ faults = 1
    /\ db.search_requests = {}
    /\ Completed("d1")
    /\ StatusIn(store, "d1").result # None

\* C12: no leaked in-flight entries.  The registry holds an entry for a
\* digest only while the background task it names is unfinished; a task
\* that has ended, on whichever exit path (success, upstream failure,
\* failure of the store write in the failure handler), has left no entry
\* for its digest.
C12_NoLeakedEntries ==
    /\ \A d \in Digests :
          background_tasks[d] # 0
          => /\ background_tasks[d] \in 1..Len(tasks)
             /\ background_tasks[d] \in Unfinished(d)
    /\ \A t \in 1..Len(tasks) :
          done(t) => background_tasks[tasks[t].query_hash] \notin {t} \cup
                        {u \in 1..Len(tasks) : done(u)}
    /\ \A t \in 1..Len(tasks) :
          ~done(t) => background_tasks[tasks[t].query_hash] = t

\* A background task has ended on the exit path where the store write of
\* the failure handler raised, and its digest has no registry entry.
C12_Witness ==
    /\ Len(tasks) >= 1
    /\ tasks[1].pc = "done"
    /\ tasks[1].error = Some(UpstreamError)
    /\ faults = 1
    /\ JobOf("d1") # None
    /\ Get(JobOf("d1")).status = "pending"
    /\ Unfinished("d1") = {}
    /\ background_tasks["d1"] = 0

\* Background task t hands the upstream computation to the executor in
\* this step (line 110).
Invokes(t) == tasks[t].pc = "created" /\ tasks'[t].pc = "upstream"

\* C13 as claimed: the upstream computation is invoked exactly once for
\* each start_search call that is accepted (returns pending with a newly
\* started search) and never for a call that returns anything else.  A
\* call that returns has launched a background task exactly if its response
\* is the accepted one; a task invokes the upstream computation when it
\* starts and never again.
C13_Original ==
    [][ /\ \A c \in Callers, q \in Queries :
            StartSearchReturns(c, q)
            => IF TheResponse = StartedResponse(sha256(q))
               THEN /\ callers[c].task \in 1..Len(tasks)
                    /\ tasks[callers[c].task].query = q
               ELSE callers[c].task = 0 /\ NoNewWork
        /\ \A c \in Callers :
            (callers[c].task # 0 /\ StepOf(c)) => Len(tasks') = Len(tasks)
        /\ Len(tasks') <= Len(tasks) + 1
        /\ \A t \in 1..Len(tasks) :
            (tasks'[t].pc = "upstream" /\ tasks[t].pc # "upstream")
            => Invokes(t)
      ]_vars

\* The upstream computation of background task t is unfinished: the task
\* has not started it yet or is waiting for the executor.
UpstreamUnfinished(t) == tasks[t].pc \in {"created", "upstream"}

\* C14: start_search never waits for the upstream computation.  In every
\* state in which a start_search call has launched a background task and
\* has not returned, it can return at once, with the background task left
\* where it is; in particular while the upstream computation is unfinished.
\* A call that has not launched anything can always take its next step.
C14_NeverWaits ==
    \A c \in Callers :
        /\ callers[c].pc = "hset"
           => /\ callers[c].task \in 1..Len(tasks)
              /\ ENABLED ( /\ StartSearchHset(c)
                           /\ tasks' = tasks
                           /\ Get(returned').response =
                                  StartedResponse(sha256(callers[c].query)) )
        /\ callers[c].pc = "hget" => ENABLED StartSearchHget(c)
        /\ callers[c].pc = "hget_done" => ENABLED StartSearchDecide(c)

\* start_search has returned pending for the task it launched while the
\* upstream computation of that task is not finished.
C14_Witness ==
    /\ returned # None
    /\ Get(returned).response = StartedResponse("d1")
    /\ Len(tasks) = 1
    /\ UpstreamUnfinished(1)
    /\ \A c \in Callers : callers[c].pc = "idle"

\* No two rows of search_requests have the same primary key (id, task_id).
UniqueKeys(d) ==
    \A r1, r2 \in d.search_requests :
        (r1.id = r2.id /\ r1.task_id = r2.task_id) => r1 = r2

\* C15: Result Sync idempotence.  A step of a store_search_request call for
\* a pair (query_hash, task_id) that is already stored adds no row and
\* changes no row, and the table never holds two rows with the same
\* (id, task_id), also when calls for the same pair run concurrently.
C15_Idempotent ==
    [][ /\ \A s \in DbSessions :
            ( /\ sessions'[s] # sessions[s]
              /\ sessions[s].pc # "idle"
              /\ sessions[s].pc # "returned"
              /\ existing_request(db, sessions[s].query_hash,
                                  sessions[s].task_id) )
            => db' = db
        /\ db.search_requests \subseteq db'.search_requests
        /\ UniqueKeys(db')
      ]_vars

\* Two concurrent calls for the same pair with different results: one has
\* stored its row, the other found the pair taken at its commit and
\* returned None.
C15_Witness ==
    /\ faults = 0
    /\ sessions["s1"].pc = "returned"
    /\ sessions["s2"].pc = "returned"
    /\ sessions["s1"].query_hash = sessions["s2"].query_hash
    /\ sessions["s1"].task_id = sessions["s2"].task_id
    /\ sessions["s1"].result # sessions["s2"].result
    /\ sessions["s1"].ret # None
    /\ sessions["s2"].ret = None
    /\ Cardinality(db.search_requests) = 1

\* The get_or_set call of caller c is in its check-then-populate section
\* (lines 52-67).
InSection(c) == gets[c].pc \in {"get", "getter", "set"}

\* C16: single flight in the keyed cache.  With the store available and the
\* entries initially absent, for concurrent get_or_set calls on the same
\* key: no two calls are in the check-then-populate section together, the
\* getter is invoked once, every call returns the value that getter
\* produced, and all calls use one and the same lock.
C16_SingleFlight ==
    /\ \A c1, c2 \in CacheCallers :
          (c1 # c2 /\ gets[c1].key = gets[c2].key)
          => /\ ~(InSection(c1) /\ InSection(c2))
             /\ (gets[c1].lock # None /\ gets[c2].lock # None)
                => gets[c1].lock = gets[c2].lock
    /\ \A c \in CacheCallers :
          gets[c].lock # None => locks[gets[c].key] = gets[c].lock
    /\ redis = "up"
       => /\ \A k \in Keys : Len(invoked[k]) <= 1
          /\ \A k \in Keys : kv[k] # None => Len(invoked[k]) = 1
          /\ \A c \in CacheCallers :
                gets[c].pc = "returned"
                => /\ Len(invoked[gets[c].key]) = 1
                   /\ gets[c].ret = Returned(invoked[gets[c].key][1])

\* Two calls on the same key with different getters have both returned the
\* value of the one getter that was invoked.
C16_Witness ==
    /\ redis = "up"
    /\ gets["g1"].pc = "returned"
    /\ gets["g2"].pc = "returned"
    /\ gets["g1"].key = gets["g2"].key
    /\ gets["g1"].getter # gets["g2"].getter
    /\ gets["g1"].ret = gets["g2"].ret
    /\ gets["g1"].ret = Returned(gets["g1"].getter)

\* the steps of a get_or_set call after the call itself
GetOrSetProgress(c) ==
    \/ GetOrSetAcquire(c)
    \/ GetOrSetHit(c)
    \/ GetOrSetMiss(c)
    \/ GetOrSetGetRaises(c)
    \/ GetOrSetGetter(c)
    \/ GetOrSetSet(c)
    \/ GetOrSetSetRaises(c)

\* C17: keyed locks are independent.  While a get_or_set call on one key is
\* suspended inside its getter, holding the lock of its key, a call on a
\* different key is never held up by it: a call made then takes the lock
\* of its key at once, and a call under way can take its next step, while
\* the first call stays in its getter.
C17_IndependentLocks ==
    \A c1, c2 \in CacheCallers :
        (c1 # c2 /\ gets[c1].pc = "getter")
        => /\ \A k \in Keys \ {gets[c1].key} :
                gets[c2].pc \in {"idle", "returned"}
                => ENABLED ( /\ GetOrSetCall(c2, k, [py |-> "[]"])
                             /\ gets'[c2].pc = "get"
                             /\ gets'[c1] = gets[c1] )
           /\ ( /\ gets[c2].key # gets[c1].key
                /\ gets[c2].pc \notin {"idle", "returned"} )
              => ENABLED (GetOrSetProgress(c2) /\ gets'[c1] = gets[c1])

\* A call on k2 has been made and has returned while the call on k1 is
\* still inside its getter.
C17_Witness ==
    /\ gets["g1"].pc = "getter"
    /\ gets["g1"].key = "k1"
    /\ gets["g2"].pc = "returned"
    /\ gets["g2"].key = "k2"
    /\ gets["g2"].ret = Returned(gets["g2"].getter)
    /\ kv["k1"] = None
    /\ kv["k2"] # None

\* C18 as claimed: whenever the store is unavailable, a get_or_set call
\* invokes its getter directly, and a call that returns then returns the
\* value of its own getter, stores nothing and raises no store error.
C18_Original ==
    [][ \A c \in CacheCallers :
          /\ ( /\ redis # "up"
               /\ gets[c].pc \in {"idle", "returned"}
               /\ gets'[c].pc \notin {"idle", "returned"} )
             => /\ gets'[c].pc = "bypass"
                /\ invoked'[gets'[c].key] =
                       Append(invoked[gets'[c].key], gets'[c].getter)
          /\ ( /\ redis # "up"
               /\ gets[c].pc \notin {"idle", "returned"}
               /\ gets'[c].pc = "returned" )
             => /\ gets'[c].ret = Returned(gets[c].getter)
                /\ kv' = kv
      ]_vars

\* C19 as claimed: a Job whose time to live has elapsed is no longer
\* visible, and a start_search call for its query that arrives after that,
\* with force_refresh = False, launches a new background task and creates a
\* new pending Job.
C19_Original ==
    [][ /\ \A d \in Digests :
            Cold(d) => StatusIn(store, d).status = "not_found"
        /\ \A c \in Callers :
            /\ (callers[c].cold /\ callers[c].pc = "hget_done" /\ StepOf(c))
               => /\ Launched(sha256(callers[c].query))
                  /\ callers'[c].pc = "hset"
            /\ (callers[c].cold /\ callers[c].pc = "hset" /\ StepOf(c))
               => StatusIn(store', sha256(callers[c].query)).status = "pending"
      ]_vars

\* C19, amended: a Job whose time to live has elapsed is no longer visible:
\* a status read answers not_found and a cache read finds nothing.  A
\* start_search call for its query that arrives after that, with
\* force_refresh = False, and whose cache read finds nothing launches a new
\* background task exactly if no background task of the query is
\* unfinished; otherwise it launches nothing and answers that the search is
\* already in progress.  The call that launched creates the new pending Job
\* and answers pending, unless its store write raises: then it answers
\* failed and the store keeps the expired entry.
C19_ColdKey ==
    [][ /\ \A d \in Digests :
            Cold(d) => /\ StatusIn(store, d).status = "not_found"
                       /\ hget(store, d) = None
        /\ \A c \in Callers :
            LET query_hash == sha256(callers[c].query) IN
            /\ ( /\ callers[c].cold
                 /\ callers[c].pc = "hget_done"
                 /\ callers[c].cached_value = None
                 /\ StepOf(c) )
               => IF Unfinished(query_hash) = {}
                  THEN /\ Launched(query_hash)
                       /\ callers'[c].pc = "hset"
                       /\ returned' = returned
                  ELSE /\ NoNewWork
                       /\ ReturnsFrom(c)
                       /\ TheResponse = InProgressResponse(query_hash)
            /\ (callers[c].cold /\ callers[c].pc = "hset" /\ StepOf(c))
               => /\ ReturnsFrom(c)
                  /\ IF faults' = faults
                     THEN /\ TheResponse = StartedResponse(query_hash)
                          /\ StatusIn(store', query_hash).status = "pending"
                     ELSE /\ TheResponse.status = "failed"
                          /\ store' = store
      ]_vars

\* A call that arrived after the Job of the first background task had
\* expired has launched the second background task.
C19_Witness ==
    \E c \in Callers :
        /\ callers[c].cold
        /\ ~callers[c].force_refresh
        /\ callers[c].pc = "hset"
        /\ callers[c].task = 2
        /\ Cold(sha256(callers[c].query))

\* the value that a read of task_id returns is no JSON document
Undecodable(task_id) ==
    /\ hget(store, task_id) # None
    /\ ~Decodable(Get(hget(store, task_id)))

\* C20 as claimed: malformed stored Job.  A get_search_status call whose
\* store read returns a value that cannot be decoded returns status
\* not_found.
C20_Original ==
    [][ ( /\ StatusReturns
          /\ faults' = faults
          /\ Undecodable(poll.task_id) )
        => TheResponse.status = "not_found"
      ]_vars

\* Caller c's call of operation op returns in this step without raising.
Completes(c, op) ==
    /\ gets[c].op = op
    /\ gets[c].pc \notin {"idle", "returned"}
    /\ gets'[c].pc = "returned"
    /\ Get(gets'[c].ret).kind = "value"

\* C21: the step in which invalidate(key) deletes leaves the store without
\* an entry of key and with every other entry as it was; the step in which
\* clear() flushes leaves the store without any entry, so that when clear()
\* returns a read of any key finds nothing.
C21_FrameEffect ==
    [][ \A c \in CacheCallers :
          /\ (Completes(c, "invalidate") /\ redis = "up")
             => /\ kv'[gets[c].key] = None
                /\ \A k \in Keys \ {gets[c].key} : kv'[k] = kv[k]
          /\ (Completes(c, "clear") /\ redis = "up")
             => \A k \in Keys : kv'[k] = None /\ ~Truthy(kv'[k])
      ]_vars

\* invalidate("k1") has returned: the store holds nothing under k1 and
\* still holds the entry of k2.
C21_Witness ==
    \E c \in CacheCallers :
        /\ gets[c].op = "invalidate"
        /\ gets[c].pc = "returned"
        /\ gets[c].key = "k1"
        /\ Get(gets[c].ret).kind = "value"
        /\ redis = "up"
        /\ kv["k1"] = None
        /\ kv["k2"] # None

\* A clear_cache handler returns its success message to caller c in this
\* step.
ClearCacheReturns(c) ==
    /\ gets'[c] # gets[c]
    /\ gets'[c].op = "clear_cache"
    /\ gets'[c].pc = "returned"
    /\ Get(gets'[c].ret).kind = "value"

\* C22 as claimed: when a clear_cache handler returns its success message,
\* the store holds no entries.
C22_Original ==
    [][ \A c \in CacheCallers :
          ClearCacheReturns(c) => \A k \in Keys : kv'[k] = None
      ]_vars

\* C23 as claimed: a request to the root endpoint with force_refresh = True
\* whose get_or_set reads the store does not take the cached value: the
\* entry of the query is gone before get_or_set runs, the getter is invoked
\* and its result is returned.
C23_Original ==
    [][ \A c \in CacheCallers :
          /\ \A q \in Keys :
                (redis = "up" /\ RootCall(c, q, TRUE)) => kv'[q] = None
          /\ ( /\ gets[c].op = "root"
               /\ gets[c].force_refresh
               /\ gets[c].pc = "get"
               /\ gets'[c].pc # "get"
               /\ redis = "up" )
             => /\ gets'[c].pc = "getter"
                /\ invoked'[gets[c].key] =
                       Append(invoked[gets[c].key], gets[c].getter)
      ]_vars

\* C24: Job record shape.  In every reachable state every stored Job has a
\* result only if its status is completed, an error only if its status is
\* failed, and a completed_at only if its status is completed or failed.
C24_JobShape ==
    \A d \in Digests :
        JobOf(d) # None
        => LET job == Get(JobOf(d)) IN
           /\ job.result # None => job.status = "completed"
           /\ job.error # None => job.status = "failed"
           /\ job.completed_at # None
                 => job.status \in {"completed", "failed"}
           /\ job.status = "pending" => job.completed_at = None

\* A completed Job with its result and its completed_at is stored.
C24_Witness ==
    /\ JobOf("d1") # None
    /\ Get(JobOf("d1")).status = "completed"
    /\ Get(JobOf("d1")).result # None
    /\ Get(JobOf("d1")).completed_at # None
    /\ Get(JobOf("d1")).error = None

\* C25: every stored Job whose status is completed or failed has a
\* completed_at that is not earlier than its start timestamp, while the
\* clock never goes back.
C25_CompletedAfterStart ==
    \A d \in Digests :
        (JobOf(d) # None /\ Get(JobOf(d)).status \in {"completed", "failed"})
        => /\ Get(JobOf(d)).completed_at # None
           /\ fromisoformat(Get(Get(JobOf(d)).completed_at))
                 >= fromisoformat(Get(JobOf(d)).timestamp)

\* A Job that was launched after the clock had advanced is completed, its
\* completed_at later than its start.
C25_Witness ==
    /\ JobOf("d1") # None
    /\ Get(JobOf("d1")).status = "completed"
    /\ fromisoformat(Get(JobOf("d1")).timestamp) >= 1
    /\ fromisoformat(Get(Get(JobOf("d1")).completed_at))
          >= fromisoformat(Get(JobOf("d1")).timestamp)

\* C26 as claimed: a SearchRequest whose query is shorter than 10
\* characters is rejected with a validation error, one whose query has 10
\* characters or more is accepted.
C26_Original ==
    search_request.pc \in {"accepted", "rejected"}
    => (search_request.pc = "rejected" <=> Len(search_request.query) < 10)

\* Background task t writes its completed or failed Job in this step.
TerminalWrite(t) ==
    /\ tasks[t].pc \in {"hset_completed", "hset_error"}
    /\ tasks'[t] # tasks[t]
    /\ store' # store

\* C27 as claimed: write ordering in start_search.  When a background task
\* writes its completed or failed Job, the pending Job of the call that
\* launched it has been written: that call is not still waiting in the
\* hset of line 84, so that the pending Job is never written after the
\* terminal Job of its own execution.
C27_Original ==
    [][ \A t \in 1..Len(tasks) :
          TerminalWrite(t)
          => ~ \E c \in Callers : /\ callers[c].pc = "hset"
                                   /\ callers[c].task = t
      ]_vars

\* the statuses of a Job that exists
Observable == {"pending", "completed", "failed"}

\* C28 as claimed: a pending answer is observable.  When a start_search
\* call returns status pending for a task_id, a status read of that task_id
\* finds a Job (pending, completed or failed); a Job that is stored stays
\* stored; and a get_search_status call that reads a stored Job returns its
\* status.  Hence no get_search_status call made after the pending answer
\* returns not_found.
C28_Original ==
    [][ /\ \A c \in Callers, q \in Queries :
            (StartSearchReturns(c, q) /\ TheResponse.status = "pending")
            => StatusIn(store', sha256(q)).status \in Observable
        /\ \A d \in Digests : JobOf(d) # None => JobOf(d)' # None
        /\ ( /\ StatusReturns
             /\ poll.task_id \in Digests
             /\ JobOf(poll.task_id) # None
             /\ faults' = faults )
           => TheResponse.status \in Observable
      ]_vars

\* C29 as claimed: a failed start starts nothing.  When a start_search call
\* returns status failed, the call has created no background task, none is
\* registered because of it, and the step creates none.
C29_Original ==
    [][ \A c \in Callers :
          (ReturnsFrom(c) /\ TheResponse.status = "failed")
          => /\ callers[c].task = 0
             /\ NoNewWork
             /\ \A d \in Digests :
                    background_tasks'[d] # 0
                    => background_tasks'[d] # callers[c].task
      ]_vars

\* invalidate(key) of caller c has returned, and no getter has been started
\* for key since it was called: a get_or_set of key that is now between the
\* start of its getter and its write started that getter before the call.
InvalidatedSince(c, key) ==
    /\ gets[c].op = "invalidate"
    /\ gets[c].key = key
    /\ gets[c].pc = "returned"
    /\ Get(gets[c].ret).kind = "value"
    /\ gets[c].seen = Len(invoked[key])

\* C30 as claimed: invalidate is serialized with get_or_set on the same
\* key.  No get_or_set writes under a key the value of a getter that was
\* started before an invalidate of that key was called, once that
\* invalidate has returned.
C30_Original ==
    [][ \A d \in CacheCallers :
          (gets[d].pc = "set" /\ GetOrSetSet(d))
          => \A c \in CacheCallers \ {d} : ~InvalidatedSince(c, gets[d].key)
      ]_vars

\* the lock of caller c's call is held by a caller that has left get_or_set
LockLeaked(c) ==
    \E h \in holders :
        /\ h.lock = Get(gets[c].lock)
        /\ gets[h.holder].pc \in {"idle", "returned"}

\* C31: getter failure in get_or_set.  The step in which the getter of a
\* call raises returns the error to that caller, stores nothing (the key
\* still has no entry) and leaves the lock of the key free; and a call that
\* waits for a lock never waits for a caller that has left get_or_set, so a
\* waiting call can take the lock, and finding no entry invokes its own
\* getter.
C31_GetterFailure ==
    [][ \A c \in CacheCallers :
          /\ (gets[c].pc = "getter" /\ gets'[c].pc = "returned"
               /\ gets'[c].ret = Raised("getter error"))
             => /\ kv' = kv
                /\ ~Truthy(kv'[gets[c].key])
                /\ \A h \in holders' : h.lock # Get(gets[c].lock)
                /\ \A d \in CacheCallers \ {c} : gets'[d] = gets[d]
          /\ (gets'[c].pc = "acquire") => ~LockLeaked(c)'
          /\ (gets[c].pc = "get" /\ redis = "up" /\ ~Truthy(kv[gets[c].key])
               /\ gets'[c] # gets[c])
             => /\ gets'[c].pc = "getter"
                /\ invoked'[gets[c].key] = Append(invoked[gets[c].key], gets[c].getter)
      ]_vars

\* The getter of g1 raised while g2 waited for the lock of the same key;
\* g2 then took the lock, invoked its own getter and returned its value,
\* which is what the store holds.
C31_Witness ==
    /\ redis = "up"
    /\ gets["g1"].pc = "returned"
    /\ gets["g1"].ret = Raised("getter error")
    /\ gets["g2"].pc = "returned"
    /\ gets["g2"].key = gets["g1"].key
    /\ gets["g2"].lock = gets["g1"].lock
    /\ gets["g2"].ret = Returned(gets["g2"].getter)
    /\ Len(invoked[gets["g1"].key]) = 2
    /\ kv[gets["g1"].key] = Some(json_dumps(gets["g2"].getter))

\* the ids of a list
IdsOf(ids) == {ids[i] : i \in 1..Len(ids)}

\* the requests among the user's last ten that make a call with the query
\* and the clock reading given a duplicate
Duplicates(query, current_time) ==
    {i \in IdsOf(Last(StoredList, RecentChecked)) :
        is_duplicate(Stored(i), query, current_time)}

\* caller c's call of the operation given ends in this step
UserCallEnds(c, op) ==
    /\ users[c].op = op
    /\ users[c].pc \notin {"idle", "returned"}
    /\ users'[c].pc = "returned"

\* C32 as claimed: user-request dedup.  A store_pending_request call that
\* returns the id of an existing request has created no request, and that
\* request is one of the user's last ten, has the query of the call, is not
\* pending and is at most 15 minutes old; a call that returns its own id
\* has stored its request with status pending, and the user's list holds
\* its id.
C32_Original ==
    [][ \A c \in CacheCallers :
          UserCallEnds(c, "store_pending_request")
          => LET u == users[c]
                 id == Get(users'[c].ret).value IN
             IF id # u.request_id
             THEN /\ id \in Duplicates(u.query, u.current_time)
                  /\ Stored(u.request_id) = PyNone
             ELSE /\ Stored(u.request_id)' =
                         request_data(u.query, u.current_time, u.request_id)
                  /\ u.request_id \in IdsOf(StoredList')
      ]_vars

\* no UserService call is under way
NoUserCall == \A c \in CacheCallers : users[c].pc \in {"idle", "returned"}

\* the ids of the requests that store_pending_request calls have stored
Created == {i \in RequestIds : Stored(i).py = "dict"}

\* C33 as claimed: no lost request ids.  Whenever the concurrent
\* store_pending_request calls of a user have all ended, the user's request
\* list holds the id of every request that they created.
C33_Original ==
    (NoUserCall /\ \A c \in CacheCallers : users[c].op \in {"none", "store_pending_request"})
    => Created \subseteq IdsOf(StoredList)

\* the store holds the request with a result, status completed and a
\* completed_at
HoldsResult(request_id) ==
    /\ Stored(request_id).py = "dict"
    /\ Stored(request_id).dict.result = Some("result")
    /\ Stored(request_id).dict.status = "completed"
    /\ Stored(request_id).dict.completed_at # None

\* C34 as claimed: update_request_with_result takes effect.  When a call
\* that found the request in the cache at its start returns, the cache
\* holds that request with the result, status completed and a completed_at,
\* whatever other calls do on the same request key meanwhile.
C34_Original ==
    [][ \A c \in CacheCallers :
          (UserCallEnds(c, "update_request_with_result") /\ users[c].existed)
          => HoldsResult(users[c].request_id)'
      ]_vars

\* C35 as claimed: history views only read.  No step of a get_user_history
\* call, and no step of a cache operation that it awaits, changes what the
\* store holds, whether or not the store has an entry of the user's list
\* or of a request id.
C35_Original ==
    [][ \A c \in CacheCallers :
          (users[c].op = "get_user_history" /\ <<users[c], gets[c]>>' # <<users[c], gets[c]>>)
          => kv' = kv
      ]_vars

\* the ids of a set in the order in which they were drawn
RECURSIVE Ascending(_)
Ascending(ids) ==
    IF ids = {}
    THEN <<>>
    ELSE LET m == CHOOSE m \in ids : \A i \in ids : i <= m IN
         Append(Ascending(ids \ {m}), m)

\* C36: the stored request list of a user never holds more than 50 ids,
\* and after every sequence of store_pending_request calls it is the list of
\* the most recently created ids, oldest first: all of them up to 50, the
\* last 50 beyond.
C36_KeepsLast ==
    /\ Len(StoredList) <= KeptRequests
    /\ NoUserCall => StoredList = Last(Ascending(Created), KeptRequests)

\* The calls have ended, more than 50 requests have been created and the
\* list holds the last 50 of them: the oldest id is gone.
C36_Witness ==
    /\ NoUserCall
    /\ users["g1"].pc = "returned"
    /\ Cardinality(Created) > KeptRequests
    /\ Len(StoredList) = KeptRequests
    /\ StoredList[1] > 1
    /\ StoredList[KeptRequests] = users["g1"].request_id

\* C37 as claimed: Result Sync is all-or-nothing per execution.  Durable
\* storage never holds a Task that has no SearchRequest row: whenever
\* _perform_db_sync has ended, the user, the task and the row of the digest
\* are all stored or none of them is.
C37_Original ==
    \A owner \in db.owners :
        \E r \in db.search_requests : r.task_id = owner

====
